---- MODULE Spec2Model ----
(***************************************************************************)
(* A model of the Pangloss lightcone lensing engine:                       *)
(*   - Lightcone.__init__ (geometric selection of a cone from a catalog),  *)
(*   - Lightcone.defineSystem / combineKappas / combineMus,                *)
(*   - BackgroundCatalog.lens_by_map / lens_by_halos (ellipticities).      *)
(*                                                                         *)
(* Numbers.  The program computes in IEEE doubles.  The model computes in  *)
(* exact rationals <<n, d>> (d > 0, lowest terms) extended with the three  *)
(* non-finite doubles a division by zero produces under numpy:             *)
(* <<1,0>> = +inf, <<-1,0>> = -inf, <<0,0>> = nan.  Rounding is not        *)
(* modelled.  Complex numbers are pairs [re, im] of such values.           *)
(*                                                                         *)
(* Angles.  Sky coordinates are stored by the program in radians; the      *)
(* model stores them as integers in ticks of half an arcminute, so that    *)
(* the two unit conversions are real multiplications.                      *)
(***************************************************************************)
EXTENDS Integers, Sequences, FiniteSets, TLC

VARIABLES
    catalog,        \* parent galaxy catalog handed to Lightcone.__init__
    built,          \* TRUE once Lightcone.__init__ has run
    xc,             \* Lightcone.xc: cone centre <<RA0, Dec0>> (ticks)
    rmax,           \* Lightcone.rmax: cone radius (arcmin)
    galaxies,       \* Lightcone.galaxies: the cone's table, a sequence of rows
    galaxy_count,   \* Lightcone.galaxy_count
    zs,             \* Lightcone.zs (tenths); -1 before defineSystem
    zl,             \* Lightcone.zl (tenths); -1 before defineSystem
    cat_columns,    \* names of the columns of the parent catalog
    printed,        \* what Lightcone.__init__ printed ("" if nothing)
    valid,          \* the per-galaxy draws and kappas when totals were last computed
    columns,        \* names of the scheme columns written to the table
    attrs,          \* names of the total attributes set on the cone
    total,          \* the cone's total attributes, by name
    raised,         \* exception raised by the last call ("none" if it returned)
    ret,            \* value returned by the last combineMus call
    bg,             \* BackgroundCatalog.galaxies: sequence of source rows
    bg_count,       \* BackgroundCatalog.galaxy_count
    bg_removed,     \* BackgroundCatalog.strong_lensed_removed
    lightcones,     \* BackgroundCatalog.lightcones: None, or the array of cones
    lensed,         \* the lensing columns as the last lensing call wrote them
    compose,        \* one ellipticity composition: its inputs and results
    field,          \* the Lightcone objects of a drilled field, with their tables
    grid,           \* BackgroundCatalog.grid: the redshift grid the cones share
    foreground_kappas,  \* the mean kappa of each grid plane, shared by the cones
    recon,          \* the run of Reconstruct: its parameters, position and PDFs
    call            \* the last call made: its name and arguments

vars == <<catalog, built, xc, rmax, galaxies, galaxy_count, zs, zl, cat_columns,
          printed, valid, columns, attrs, total, raised, ret, bg, bg_count, bg_removed,
          lightcones, lensed, compose, field, grid, foreground_kappas, recon, call>>

coneVars == <<catalog, built, xc, rmax, galaxies, galaxy_count, zs, zl,
              cat_columns, printed, valid, columns, attrs, total, ret>>

fieldVars == <<field, grid, foreground_kappas, recon>>

bgVars == <<bg, bg_count, bg_removed, lightcones, lensed, compose, fieldVars>>

----------------------------------------------------------------------------
(* Extended rational arithmetic (IEEE double semantics without rounding).  *)

Abs(n) == IF n < 0 THEN -n ELSE n

Sgn(n) == IF n < 0 THEN -1 ELSE IF n > 0 THEN 1 ELSE 0

RECURSIVE Gcd(_, _)
Gcd(a, b) == IF b = 0 THEN a ELSE Gcd(b, a % b)

\* n/d in lowest terms; d = 0 gives the non-finite value of the sign of n.
Norm(n, d) ==
    IF d = 0 THEN <<Sgn(n), 0>>
    ELSE LET g == Gcd(Abs(n), Abs(d))
             s == IF d < 0 THEN -1 ELSE 1
         IN  <<(s * n) \div g, (s * d) \div g>>

Zero == <<0, 1>>
One == <<1, 1>>
Two == <<2, 1>>
Half == <<1, 2>>
Inf == <<1, 0>>
NaN == <<0, 0>>

R(n) == <<n, 1>>

IsFinite(a) == a[2] # 0
IsNaN(a) == a = NaN

RNeg(a) == <<-a[1], a[2]>>

RAdd(a, b) ==
    IF IsFinite(a) /\ IsFinite(b) THEN Norm(a[1] * b[2] + b[1] * a[2], a[2] * b[2])
    ELSE IF IsNaN(a) \/ IsNaN(b) THEN NaN
    ELSE IF IsFinite(a) THEN b
    ELSE IF IsFinite(b) THEN a
    ELSE IF a = b THEN a ELSE NaN

RSub(a, b) == RAdd(a, RNeg(b))

RMul(a, b) ==
    IF IsFinite(a) /\ IsFinite(b) THEN Norm(a[1] * b[1], a[2] * b[2])
    ELSE IF IsNaN(a) \/ IsNaN(b) THEN NaN
    ELSE <<Sgn(a[1]) * Sgn(b[1]), 0>>

\* numpy double division: x/0 is +-inf (with a RuntimeWarning), 0/0 is nan.
RDiv(a, b) ==
    IF IsFinite(a) /\ IsFinite(b) THEN Norm(a[1] * b[2], a[2] * b[1])
    ELSE IF IsNaN(a) \/ IsNaN(b) THEN NaN
    ELSE IF IsFinite(a) THEN Zero
    ELSE IF IsFinite(b) THEN <<Sgn(a[1]) * (IF b[1] < 0 THEN -1 ELSE 1), 0>>
    ELSE NaN

RSq(a) == RMul(a, a)

\* a < b on doubles: every comparison with nan is False.
RLt(a, b) ==
    IF IsNaN(a) \/ IsNaN(b) THEN FALSE
    ELSE IF IsFinite(a) /\ IsFinite(b) THEN a[1] * b[2] < b[1] * a[2]
    ELSE IF IsFinite(a) THEN b[1] > 0
    ELSE IF IsFinite(b) THEN a[1] < 0
    ELSE a[1] < b[1]

RGt(a, b) == RLt(b, a)

RECURSIVE SumSeq(_)
\* np.sum of a column; the sum of an empty column is 0.0
SumSeq(s) == IF s = << >> THEN Zero ELSE RAdd(Head(s), SumSeq(Tail(s)))

Col(t, c) == [i \in 1..Len(t) |-> t[i][c]]

RECURSIVE SelectRows(_, _)
\* table[np.where(mask)]: the rows whose mask is True, in table order
SelectRows(t, mask) ==
    IF t = << >> THEN << >>
    ELSE IF Head(mask) THEN <<Head(t)>> \o SelectRows(Tail(t), Tail(mask))
         ELSE SelectRows(Tail(t), Tail(mask))

----------------------------------------------------------------------------
(* Complex doubles: pairs [re, im], with numpy's arithmetic.               *)

Cx(re, im) == [re |-> re, im |-> im]
COne == Cx(One, Zero)
CZero == Cx(Zero, Zero)
CAdd(a, b) == Cx(RAdd(a.re, b.re), RAdd(a.im, b.im))
CMul(a, b) ==
    Cx(RSub(RMul(a.re, b.re), RMul(a.im, b.im)),
       RAdd(RMul(a.re, b.im), RMul(a.im, b.re)))
\* val.conjugate() of a complex value
CConj(a) == Cx(a.re, RNeg(a.im))
\* np.abs(a)**2
CAbs2(a) == RAdd(RSq(a.re), RSq(a.im))
\* complex / real
CDivReal(a, x) == Cx(RDiv(a.re, x), RDiv(a.im, x))
\* complex / complex
CDiv(a, b) == CDivReal(CMul(a, CConj(b)), CAbs2(b))

\* val.conjugate() of a real double: the value itself
RealConjugate(x) == x

----------------------------------------------------------------------------
(* Bounds and input domains.                                               *)

MaxCat == 2            \* rows in a parent catalog
MaxGal == 2            \* rows in a cone table drawn as an input
MaxSrc == 2            \* sources in a background catalog

\* pangloss.arcmin2rad, in model units: ticks per arcminute.
Arcmin2Rad == 2

\* pangloss.rad2arcmin = 1.0/arcmin2rad
Rad2Arcmin == RDiv(One, R(Arcmin2Rad))

\* 60 degrees of declination, in ticks
Dec60 == 60 * 60 * Arcmin2Rad

Centres == {<<0, 0>>, <<0, Dec60>>}
Radii == {1, 2}                      \* arcmin

\* np.cos of a declination, to three decimals
Cos(dec) == IF Abs(dec) >= Dec60 THEN Norm(500, 1000) ELSE Norm(1000, 1000)

\* A row of a parent catalog: position (ticks), Type flag, z_obs (tenths)
CatRow(ra, dec, type, z) == [RA |-> ra, Dec |-> dec, Type |-> type, z_obs |-> z]

CatRows ==
    { CatRow(0, 0, 0, 2), CatRow(3, 0, 0, 10), CatRow(3, 3, 0, 16),
      CatRow(0, 3, 2, 2), CatRow(3, 0, 0, 16), CatRow(5, 0, 0, 10),
      CatRow(3, Dec60, 0, 16), CatRow(0, Dec60, 2, 10) }

\* The columns of a parent catalog that Lightcone.__init__ reads
CatColumns == {"RA", "Dec", "z_obs", "Type"}

SeqsUpTo(S, n) == UNION {[1..k -> S] : k \in 0..n}

\* The foreground_kappas argument when it is left at None
NoFk == [given |-> FALSE, vals |-> << >>]

\* A record of a call: op is the method's name, the other fields its arguments
\* (those the method does not take are left at a default).
CallRec(op, methods, fk, flag, num) ==
    [op |-> op, methods |-> methods, fk |-> fk, flag |-> flag, num |-> num,
     num2 |-> 0, use |-> "", lim |-> <<0, 1>>]

NoCall == CallRec("none", << >>, NoFk, FALSE, 0)

\* BackgroundCatalog.lightcones = None (background.py:128)
NoLightcones == [drilled |-> FALSE, cones |-> << >>]

\* No lensing call has written the background catalog yet.
NoLensing == [by |-> "none", rows |-> << >>]

\* No totals have been computed on the cone yet.
NoValid == [set |-> FALSE, c200 |-> << >>, kappa |-> << >>, gamma |-> << >>]

\* No field of cones is under study: BackgroundCatalog.grid = None
\* (background.py:127), no cone drilled, no foreground table loaded.
NoGrid == [set |-> FALSE, redshifts |-> << >>, beta |-> << >>]

\* Reconstruct is not running
NoRecon ==
    [phase |-> "off", Ns |-> 0, RTscheme |-> "", experiment |-> << >>,
     kappa_hilbert |-> << >>, i |-> 0, j |-> 0, pk |-> << >>, truth |-> << >>,
     pmu |-> << >>, saved |-> << >>]

NoField ==
    /\ field = << >>
    /\ grid = NoGrid
    /\ foreground_kappas = << >>
    /\ recon = NoRecon

\* No ellipticity composition is under study.
NoCompose ==
    [e1_int |-> Zero, e2_int |-> Zero, g |-> CZero,
     weak |-> CZero, strong |-> CZero, did |-> {}]

----------------------------------------------------------------------------
(* Lightcone.__init__                                                      *)

\* The local tangent-plane frame of one catalog row about centre c.
LocalX(row, c) == RMul(RMul(RNeg(Cos(row.Dec)), R(row.RA - c[1])), Rad2Arcmin)

LocalY(row, c) == RMul(R(row.Dec - c[2]), Rad2Arcmin)

LocalR2(row, c) == RAdd(RSq(LocalX(row, c)), RSq(LocalY(row, c)))

\* cos(2 phi) and sin(2 phi) for phi = arctan2(y, x); arctan2(0, 0) = 0
Cos2Phi(x, y) ==
    IF RAdd(RSq(x), RSq(y)) = Zero THEN One
    ELSE RDiv(RSub(RSq(x), RSq(y)), RAdd(RSq(x), RSq(y)))

Sin2Phi(x, y) ==
    IF RAdd(RSq(x), RSq(y)) = Zero THEN Zero
    ELSE RDiv(RMul(Two, RMul(x, y)), RAdd(RSq(x), RSq(y)))

\* "Cut out a square cone": the mask on raw RA/Dec differences.
InSquare(row, c, radius) ==
    LET dx == radius * Arcmin2Rad
    IN  /\ row.RA > c[1] - dx
        /\ row.RA < c[1] + dx
        /\ row.Dec > c[2] - dx
        /\ row.Dec < c[2] + dx

\* The trim with the diameter in place of the radius
InCircleDiameter(row, c, radius) == RLt(LocalR2(row, c), RSq(R(2 * radius)))

\* "Trim it to a circle": r < rmax, with r = sqrt(x*x + y*y) >= 0 and rmax > 0
InCircle(row, c, radius) == RLt(LocalR2(row, c), RSq(R(radius)))

NotCentral(row) == row.Type # 2

\* A cone row: the catalog columns plus the columns the stages write.
ConeRow(row, c) ==
    LET x == LocalX(row, c)
        y == LocalY(row, c)
    IN  [RA |-> row.RA, Dec |-> row.Dec, Type |-> row.Type, z_obs |-> row.z_obs,
         x |-> x, y |-> y, r2 |-> LocalR2(row, c),
         c2phi |-> Cos2Phi(x, y), s2phi |-> Sin2Phi(x, y),
         beta |-> Zero, relevance2 |-> Zero, c200 |-> 0, X2 |-> Zero,
         kappa |-> Zero, gamma |-> Zero,
         gamma1 |-> Zero, gamma2 |-> Zero, mu |-> Zero,
         kappa_add |-> Zero, gamma1_add |-> Zero, gamma2_add |-> Zero,
         kappa_keeton |-> Zero, gamma1_keeton |-> Zero, gamma2_keeton |-> Zero,
         kappa_tom |-> Zero, gamma1_tom |-> Zero, gamma2_tom |-> Zero]

\* The table Lightcone.__init__ leaves in self.galaxies.
ConeTable(cat, c, radius) ==
    LET sq == SelectRows(cat, [i \in 1..Len(cat) |-> InSquare(cat[i], c, radius)])
        rows == [i \in 1..Len(sq) |-> ConeRow(sq[i], c)]
        circ == SelectRows(rows, [i \in 1..Len(rows) |-> InCircle(sq[i], c, radius)])
    IN  SelectRows(circ, [i \in 1..Len(circ) |-> NotCentral(circ[i])])

TotalNames == {"kappa_add_total", "gamma1_add_total", "gamma2_add_total",
               "kappa_keeton_total", "gamma1_keeton_total", "gamma2_keeton_total",
               "kappa_tom_total", "gamma1_tom_total", "gamma2_tom_total",
               "G1sum", "G2sum", "mu_add_total"}

NoTotals == [n \in TotalNames |-> Zero]

\* np.max of an empty catalog column raises ValueError before anything is set.
ConstructFails ==
    /\ ~built
    /\ catalog = << >>
    /\ raised' = "ValueError"
    /\ call' = CallRec("Lightcone", << >>, NoFk, FALSE, 0)
    /\ UNCHANGED <<coneVars, bgVars>>

\* The text printed for a cone without galaxies
EmptyWarning == "Lightcone: WARNING: no galaxies here!"

\* Lightcone(catalog, flavor, position=c, radius).  self.galaxies['Type'] of
\* a table without that column raises KeyError, which "except AttributeError"
\* does not catch: the constructor does not return and no cone exists.
Construct(c, radius) ==
    /\ ~built
    /\ catalog # << >>
    /\ IF "Type" \notin cat_columns
       THEN /\ raised' = "KeyError"
            /\ UNCHANGED <<built, xc, rmax, galaxies, galaxy_count, printed>>
       ELSE /\ built' = TRUE
            /\ xc' = c
            /\ rmax' = radius
            /\ galaxies' = ConeTable(catalog, c, radius)
            /\ galaxy_count' = Len(galaxies')
            /\ printed' = IF Len(galaxies') = 0 THEN EmptyWarning ELSE ""
            /\ raised' = "none"
    /\ call' = CallRec("Lightcone", << >>, NoFk, FALSE, radius)
    /\ UNCHANGED <<catalog, cat_columns, zs, zl, valid, columns, attrs, total, ret,
                   bgVars>>

InitGeometry ==
    /\ catalog \in SeqsUpTo(CatRows, MaxCat)
    /\ cat_columns \in {CatColumns, CatColumns \ {"Type"}}
    /\ built = FALSE
    /\ xc = <<0, 0>>
    /\ rmax = 0
    /\ galaxies = << >>
    /\ galaxy_count = 0
    /\ zs = -1
    /\ zl = -1
    /\ printed = ""
    /\ valid = NoValid
    /\ columns = {}
    /\ attrs = {}
    /\ total = NoTotals
    /\ raised = "none"
    /\ ret = Zero
    /\ bg = << >>
    /\ bg_count = 0
    /\ bg_removed = 0
    /\ lightcones = NoLightcones
    /\ lensed = NoLensing
    /\ compose = NoCompose
    /\ NoField
    /\ call = NoCall

----------------------------------------------------------------------------
(* C1.  Geometric filter.                                                  *)

\* The catalog columns of a cone row.
CatPart(row) == [RA |-> row.RA, Dec |-> row.Dec, Type |-> row.Type, z_obs |-> row.z_obs]

\* r < radius with r as the claim defines it, cleared of denominators:
\* (cos(dec) dRA)^2 + dDec^2 < (radius * ticks-per-arcmin)^2
WithinRadius(row, c, radius) ==
    LET cs == Cos(row.Dec)
        dra == row.RA - c[1]
        ddec == row.Dec - c[2]
    IN  cs[1] * cs[1] * dra * dra + cs[2] * cs[2] * ddec * ddec
            < cs[2] * cs[2] * radius * radius * Arcmin2Rad * Arcmin2Rad

ExactSubset(cat, c, radius) ==
    SelectRows(cat, [i \in 1..Len(cat) |->
                        cat[i].Type # 2 /\ WithinRadius(cat[i], c, radius)])

\* C1: a constructed cone holds exactly the catalog galaxies with Type != 2
\* and r < radius; the square pre-filter removes none of them.
C1_ExactCircle ==
    (built /\ call.op = "Lightcone") => [i \in 1..Len(galaxies) |-> CatPart(galaxies[i])]
                = ExactSubset(catalog, xc, rmax)

----------------------------------------------------------------------------
(* Lightcone.defineSystem, snapToGrid, makeKappas (per row)                *)

\* Grid.beta[p] for the plane p = Grid.snap(z): the lensing efficiency of the
\* plane nearest to redshift z (tenths).  pangloss.Grid is not part of the
\* sources; planes in front of the lens have beta = 0.
GridBeta(z) == IF z <= 5 THEN Zero ELSE Half

\* snapToGrid: the beta column
SnapRow(row) == [row EXCEPT !.beta = GridBeta(row.z_obs)]

\* makeKappas, given kappa = kappa_s*F and gamma = kappa_s*(G-F) of the row
MakeKappasRow(row, kappa, gamma) ==
    [row EXCEPT !.kappa = kappa,
                !.gamma = gamma,
                !.gamma1 = RNeg(RMul(gamma, row.c2phi)),
                !.gamma2 = RNeg(RMul(gamma, row.s2phi)),
                !.mu = RDiv(One, RSub(RSq(RSub(One, kappa)), RSq(gamma)))]

\* A variant of the redshift cut that keeps z_obs = zs + 0.2
BelowSourceInclusive(row, z) == row.z_obs <= z + 2

\* self.galaxies['z_obs'] < zs+0.2 (redshifts in tenths)
BelowSource(row, z) == row.z_obs < z + 2

\* defineSystem(zl, zs): records zl and zs and keeps the galaxies with
\* z_obs < zs + 0.2
DefineSystem(l, z) ==
    /\ built
    /\ zl' = l
    /\ zs' = z
    /\ galaxies' = SelectRows(galaxies,
                        [i \in 1..Len(galaxies) |-> BelowSource(galaxies[i], z)])
    /\ galaxy_count' = Len(galaxies')
    /\ raised' = "none"
    /\ call' = [CallRec("defineSystem", << >>, NoFk, FALSE, z) EXCEPT !.num2 = l]
    /\ UNCHANGED <<catalog, cat_columns, printed, valid, built, xc, rmax, columns,
                   attrs, total, ret, bgVars>>

\* The lens and source redshifts handed to defineSystem (tenths)
DefineZl == {3, 6}
DefineZs == {4, 14}

NextGeometry ==
    \/ ConstructFails
    \/ \E c \in Centres, radius \in Radii : Construct(c, radius)
    \/ \E l \in DefineZl, z \in DefineZs : DefineSystem(l, z)

SpecGeometry == InitGeometry /\ [][NextGeometry]_vars

----------------------------------------------------------------------------
(* Lightcone.combineKappas                                                 *)

\* The per-galaxy 'keeton' values (D = K**2 - G**2)
KeetonDenom(row) ==
    RSub(RSq(RSub(One, RMul(row.beta, row.kappa))), RSq(RMul(row.beta, row.gamma)))

\* A sign slip in D: K**2 + G**2
KappaKeetonSignSlip(row) ==
    LET D == RAdd(RSq(row.kappa), RSq(row.gamma))
    IN  RDiv(RMul(RSub(One, row.beta), RSub(row.kappa, RMul(row.beta, D))),
             KeetonDenom(row))

KappaKeeton(row) ==
    LET D == RSub(RSq(row.kappa), RSq(row.gamma))
    IN  RDiv(RMul(RSub(One, row.beta), RSub(row.kappa, RMul(row.beta, D))),
             KeetonDenom(row))

Gamma1Keeton(row) == RDiv(RMul(RSub(One, row.beta), row.gamma1), KeetonDenom(row))

Gamma2Keeton(row) == RDiv(RMul(RSub(One, row.beta), row.gamma2), KeetonDenom(row))

\* The per-galaxy 'tom' values
\* A variant that adds to the column already on the cone
KappaTomAccumulating(row) ==
    RAdd(row.kappa_tom, RMul(RSub(One, row.beta), row.kappa))

KappaTom(row) == RMul(RSub(One, row.beta), row.kappa)

\* A copy-paste slip: gamma1_tom computed from G2
Gamma1TomFromG2(row) == RMul(RSub(One, row.beta), row.gamma2)

\* A slip: gamma1_tom computed from the keeton column
Gamma1TomFromKeeton(row) == RMul(RSub(One, row.beta), row.gamma1_keeton)

Gamma1Tom(row) == RMul(RSub(One, row.beta), row.gamma1)

Gamma2Tom(row) == RMul(RSub(One, row.beta), row.gamma2)

\* The void correction subtracted from kappa_add_total: np.sum(foreground_kappas)
\* when the argument is given.
\* The correction left out
VoidCorrectionDropped(fk) == Zero

VoidCorrection(fk) == IF fk.given THEN SumSeq(fk.vals) ELSE Zero

\* The element of a one-element set (binds a computed value once)
Only(S) == CHOOSE x \in S : TRUE

\* One pass of the loop body "for method in methods" on the cone state st.
ApplyMethod(method, st, fk) ==
    IF method = "keeton" THEN
        LET new == [i \in 1..Len(st.galaxies) |->
                    [st.galaxies[i] EXCEPT
                        !.kappa_keeton = KappaKeeton(st.galaxies[i]),
                        !.gamma1_keeton = Gamma1Keeton(st.galaxies[i]),
                        !.gamma2_keeton = Gamma2Keeton(st.galaxies[i])]]
        IN  Only({[galaxies |-> g,
             columns |-> st.columns \cup {"kappa_keeton", "gamma1_keeton", "gamma2_keeton"},
             attrs |-> st.attrs \cup {"kappa_keeton_total", "gamma1_keeton_total",
                                      "gamma2_keeton_total"},
             total |-> [st.total EXCEPT
                          !.kappa_keeton_total = SumSeq(Col(g, "kappa_keeton")),
                          !.gamma1_keeton_total = SumSeq(Col(g, "gamma1_keeton")),
                          !.gamma2_keeton_total = SumSeq(Col(g, "gamma2_keeton"))]]
                  : g \in {new}})
    ELSE IF method = "tom" THEN
        LET new == [i \in 1..Len(st.galaxies) |->
                    [st.galaxies[i] EXCEPT
                        !.kappa_tom = KappaTom(st.galaxies[i]),
                        !.gamma1_tom = Gamma1Tom(st.galaxies[i]),
                        !.gamma2_tom = Gamma2Tom(st.galaxies[i])]]
        IN  Only({[galaxies |-> g,
             columns |-> st.columns \cup {"kappa_tom", "gamma1_tom", "gamma2_tom"},
             attrs |-> st.attrs \cup {"kappa_tom_total", "gamma1_tom_total",
                                      "gamma2_tom_total"},
             total |-> [st.total EXCEPT
                          !.kappa_tom_total = SumSeq(Col(g, "kappa_tom")),
                          !.gamma1_tom_total = SumSeq(Col(g, "gamma1_tom")),
                          !.gamma2_tom_total = SumSeq(Col(g, "gamma2_tom"))]]
                  : g \in {new}})
    ELSE IF method = "add" THEN
        LET new == [i \in 1..Len(st.galaxies) |->
                    [st.galaxies[i] EXCEPT
                        !.kappa_add = st.galaxies[i].kappa,
                        !.gamma1_add = st.galaxies[i].gamma1,
                        !.gamma2_add = st.galaxies[i].gamma2]]
        IN  Only({[galaxies |-> g,
             columns |-> st.columns \cup {"kappa_add", "gamma1_add", "gamma2_add"},
             attrs |-> st.attrs \cup {"kappa_add_total", "gamma1_add_total",
                                      "gamma2_add_total"},
             total |-> [st.total EXCEPT
                          !.gamma1_add_total = SumSeq(Col(g, "gamma1")),
                          !.gamma2_add_total = SumSeq(Col(g, "gamma2")),
                          !.kappa_add_total =
                              RSub(SumSeq(Col(g, "kappa")), VoidCorrection(fk))]]
                  : g \in {new}})
    ELSE st     \* no branch matches the name: the loop moves on

RECURSIVE ApplyMethods(_, _, _)
ApplyMethods(methods, st, fk) ==
    IF methods = << >> THEN st
    ELSE ApplyMethods(Tail(methods), ApplyMethod(Head(methods), st, fk), fk)

\* "if type(methods) != list: methods = [methods]"
MethodList(arg) == IF arg.isList THEN arg.names ELSE <<arg.name>>

InSeq(x, s) == \E i \in 1..Len(s) : s[i] = x

\* galaxies['kappa'] (and 'beta' for keeton/tom) must exist: KeyError otherwise
CombineKappasKeyError(arg) ==
    \/ "kappa" \notin columns
    \/ /\ InSeq("keeton", MethodList(arg)) \/ InSeq("tom", MethodList(arg))
       /\ "beta" \notin columns

\* The cone as the stages see it
ConeState ==
    [galaxies |-> galaxies, columns |-> columns, attrs |-> attrs, total |-> total]

\* The per-galaxy draws and kappas of table t, kept each time totals are
\* computed from them
Snapshot(t) ==
    [set |-> TRUE, c200 |-> Col(t, "c200"), kappa |-> Col(t, "kappa"),
     gamma |-> Col(t, "gamma")]

CombineKappas(arg, fk) ==
    /\ built
    /\ IF CombineKappasKeyError(arg)
       THEN /\ raised' = "KeyError"
            /\ UNCHANGED <<galaxies, columns, attrs, total, valid>>
       ELSE \E st \in {ApplyMethods(MethodList(arg), ConeState, fk)} :
                /\ galaxies' = st.galaxies
                /\ columns' = st.columns
                /\ attrs' = st.attrs
                /\ total' = st.total
                /\ valid' = Snapshot(st.galaxies)
                /\ raised' = "none"
    /\ call' = CallRec("combineKappas", MethodList(arg), fk, arg.isList, 0)
    /\ UNCHANGED <<catalog, cat_columns, printed, built, xc, rmax, galaxy_count,
                   zs, zl, ret, bgVars>>

----------------------------------------------------------------------------
(* Lightcone.combineMus                                                    *)

\* The value combineMus computes from Ksum and the two shear sums
\* (Gsum**2.0 with Gsum = sqrt(G1sum**2 + G2sum**2)).
\* The weak form without its leading 1.0
MuTotalNoUnit(weakapprox, Ksum, G1sum, G2sum) ==
    IF weakapprox THEN RMul(Two, Ksum)
    ELSE RDiv(One, RSub(RSq(RSub(One, Ksum)), RAdd(RSq(G1sum), RSq(G2sum))))

\* The exact form with the first shear component only
MuTotalOneShear(weakapprox, Ksum, G1sum, G2sum) ==
    IF weakapprox THEN RAdd(One, RMul(Two, Ksum))
    ELSE RDiv(One, RSub(RSq(RSub(One, Ksum)), RSq(G1sum)))

MuTotal(weakapprox, Ksum, G1sum, G2sum) ==
    IF weakapprox THEN RAdd(One, RMul(Two, Ksum))
    ELSE RDiv(One, RSub(RSq(RSub(One, Ksum)), RAdd(RSq(G1sum), RSq(G2sum))))

\* The cone after a combineMus that returns: the two shear sums of the
\* current table, and Msum from them and the stored kappa_add_total
CombineMusState(st, weakapprox) ==
    Only({ [st EXCEPT !.total = [@ EXCEPT !.G1sum = G1sum, !.G2sum = G2sum,
                                          !.mu_add_total = Msum],
                      !.attrs = @ \cup {"G1sum", "G2sum", "mu_add_total"}]
           : <<G1sum, G2sum, Msum>> \in
             { <<a, b, MuTotal(weakapprox, st.total.kappa_add_total, a, b)>>
               : <<a, b>> \in { <<SumSeq(Col(st.galaxies, "gamma1")),
                                  SumSeq(Col(st.galaxies, "gamma2"))>> } } })

CombineMus(weakapprox) ==
    /\ built
    /\ IF "kappa" \notin columns
       THEN /\ raised' = "KeyError"
            /\ UNCHANGED <<attrs, total, ret, valid>>
       ELSE IF "kappa_add_total" \notin attrs
       THEN /\ raised' = "AttributeError"
            /\ UNCHANGED <<attrs, total, ret, valid>>
       ELSE \E st \in {CombineMusState(ConeState, weakapprox)} :
                /\ total' = st.total
                /\ attrs' = st.attrs
                /\ ret' = st.total.mu_add_total
                /\ valid' = Snapshot(galaxies)
                /\ raised' = "none"
    /\ call' = CallRec("combineMus", << >>, NoFk, weakapprox, 0)
    /\ UNCHANGED <<catalog, cat_columns, printed, built, xc, rmax, galaxies,
                   galaxy_count, zs, zl, columns, bgVars>>

----------------------------------------------------------------------------
(* The combination stage of one cone: the cone has been constructed,       *)
(* defineSystem, snapToGrid and makeKappas have run, and combineKappas,    *)
(* combineMus and defineSystem are then called in any order.               *)

ConeCentre == <<0, 0>>
ConeRadius == 2
ConeZs == 14
ConeZl == 0
\* The halos a cone is drawn from: a catalog row, and the <<kappa, gamma>>
\* makeKappas computes for it from the profile functions F and G
\* (pangloss.BMO1Ffunc, ..., not part of the sources).
Halo(ra, dec, z, kappa, gamma) ==
    [row |-> [RA |-> ra, Dec |-> dec, Type |-> 0, z_obs |-> z],
     kappa |-> kappa, gamma |-> gamma]

Halos ==
    {Halo(3, 0, 2, One, Zero), Halo(2, 2, 2, Half, One),
     Halo(3, 0, 10, Half, One), Halo(2, 2, 10, One, One)}

\* The methods argument: a list of names, or a single name
MethodsList(names) == [isList |-> TRUE, names |-> names, name |-> ""]
MethodsName(name) == [isList |-> FALSE, names |-> << >>, name |-> name]

MethodArgs ==
    {MethodsList(<<"add", "keeton", "tom">>), MethodsList(<<"add">>),
     MethodsList(<<"keeton">>), MethodsList(<<"tom">>),
     MethodsList(<<"keaton">>), MethodsName("keeton")}

\* The foreground_kappas argument: None, or the mean kappa of each grid plane
FkArgs == {NoFk, [given |-> TRUE, vals |-> <<Norm(1, 4), Norm(1, 4)>>]}

InitCombine ==
    /\ catalog = << >>
    /\ built = TRUE
    /\ xc = ConeCentre
    /\ rmax = ConeRadius
    /\ \E hs \in SeqsUpTo(Halos, MaxGal) :
            LET t == ConeTable([i \in 1..Len(hs) |-> hs[i].row], ConeCentre, ConeRadius)
            IN  /\ Len(t) = Len(hs)
                /\ galaxies = [i \in 1..Len(t) |->
                                  MakeKappasRow(SnapRow(t[i]), hs[i].kappa, hs[i].gamma)]
    /\ galaxy_count = Len(galaxies)
    /\ zs = ConeZs
    /\ zl = ConeZl
    /\ cat_columns = CatColumns
    /\ printed = ""
    /\ valid = NoValid
    /\ columns = {"beta", "c200", "kappa"}
    /\ attrs = {"kappa_s"}
    /\ total = NoTotals
    /\ raised = "none"
    /\ ret = Zero
    /\ bg = << >>
    /\ bg_count = 0
    /\ bg_removed = 0
    /\ lightcones = NoLightcones
    /\ lensed = NoLensing
    /\ compose = NoCompose
    /\ NoField
    /\ call = NoCall

NextCombine ==
    \/ \E arg \in MethodArgs, fk \in FkArgs : CombineKappas(arg, fk)
    \/ \E w \in BOOLEAN : CombineMus(w)

SpecCombine == InitCombine /\ [][NextCombine]_vars

----------------------------------------------------------------------------
(* Claims about combineKappas and combineMus.                              *)

RECURSIVE PlusUpTo(_, _)
\* f[1] + ... + f[n]
PlusUpTo(f, n) == IF n = 0 THEN Zero ELSE RAdd(PlusUpTo(f, n - 1), f[n])

\* The sum of column c over the galaxies now in the cone
ConeSum(c) == PlusUpTo([i \in 1..Len(galaxies) |-> galaxies[i][c]], Len(galaxies))

\* combineKappas has just returned, and name was among its methods
Combined(name) ==
    /\ call.op = "combineKappas"
    /\ raised = "none"
    /\ InSeq(name, call.methods)

\* np.sum(foreground_kappas) of the last call, 0 when the argument was None
FkSum == IF call.fk.given THEN PlusUpTo(call.fk.vals, Len(call.fk.vals)) ELSE Zero

\* q is the quotient num/den (not a finite number when den = 0)
IsQuotient(q, num, den) ==
    IF den = Zero THEN ~IsFinite(q) ELSE IsFinite(q) /\ RMul(q, den) = num

\* (1 - B*K)^2 - (B*G)^2
KeetonDen(K, G, B) == RSub(RSq(RSub(One, RMul(B, K))), RSq(RMul(B, G)))

\* C2: after combineKappas with 'keeton', every galaxy has
\* kappa_keeton = (1-B)(K - B(K^2-G^2)) / ((1-BK)^2 - (BG)^2) and
\* gamma{1,2}_keeton = (1-B) gamma{1,2} / ((1-BK)^2 - (BG)^2), and the three
\* keeton totals are the sums of these columns over the galaxies in the cone.
C2_KeetonFormula ==
    Combined("keeton") =>
        /\ \A i \in 1..Len(galaxies) :
             LET g == galaxies[i]
                 K == g.kappa
                 G == g.gamma
                 B == g.beta
             IN  /\ IsQuotient(g.kappa_keeton,
                        RMul(RSub(One, B),
                             RSub(K, RMul(B, RSub(RMul(K, K), RMul(G, G))))),
                        KeetonDen(K, G, B))
                 /\ IsQuotient(g.gamma1_keeton, RMul(RSub(One, B), g.gamma1),
                        KeetonDen(K, G, B))
                 /\ IsQuotient(g.gamma2_keeton, RMul(RSub(One, B), g.gamma2),
                        KeetonDen(K, G, B))
        /\ {"kappa_keeton_total", "gamma1_keeton_total", "gamma2_keeton_total"}
              \subseteq attrs
        /\ total.kappa_keeton_total = ConeSum("kappa_keeton")
        /\ total.gamma1_keeton_total = ConeSum("gamma1_keeton")
        /\ total.gamma2_keeton_total = ConeSum("gamma2_keeton")

\* C2 witness: two galaxies, one of them behind the lens (beta > 0) with a
\* finite keeton convergence that differs from its kappa.
C2_Witness ==
    /\ Combined("keeton")
    /\ Len(galaxies) = 2
    /\ \E i \in 1..2 : /\ galaxies[i].beta # Zero
                       /\ IsFinite(galaxies[i].kappa_keeton)
                       /\ galaxies[i].kappa_keeton # galaxies[i].kappa
                       /\ galaxies[i].gamma # Zero
    /\ IsFinite(total.kappa_keeton_total)

\* C3: after combineKappas with 'add', the gamma totals are the sums of the
\* gamma1 and gamma2 columns whatever foreground_kappas was, and
\* kappa_add_total is the sum of the kappa column, less np.sum(foreground_kappas)
\* when that argument was supplied.
C3_AddTotals ==
    Combined("add") =>
        /\ {"kappa_add_total", "gamma1_add_total", "gamma2_add_total"} \subseteq attrs
        /\ total.gamma1_add_total = ConeSum("gamma1")
        /\ total.gamma2_add_total = ConeSum("gamma2")
        /\ total.kappa_add_total = RSub(ConeSum("kappa"), FkSum)

\* C3 witness: 'add' over two sheared galaxies with a foreground correction.
C3_Witness ==
    /\ Combined("add")
    /\ call.fk.given
    /\ FkSum # Zero
    /\ Len(galaxies) = 2
    /\ total.gamma2_add_total # Zero
    /\ total.kappa_add_total # ConeSum("kappa")

AllBetaZero == \A i \in 1..Len(galaxies) : galaxies[i].beta = Zero

CombinedAll == Combined("add") /\ Combined("keeton") /\ Combined("tom")

\* C4 as claimed: with beta = 0 everywhere the keeton and tom totals equal the
\* add totals of the same call, whatever foreground_kappas was.
C4_SchemesAgreeAtBetaZero ==
    (CombinedAll /\ AllBetaZero) =>
        /\ total.kappa_keeton_total = total.kappa_add_total
        /\ total.kappa_tom_total = total.kappa_add_total
        /\ total.gamma1_keeton_total = total.gamma1_add_total
        /\ total.gamma1_tom_total = total.gamma1_add_total
        /\ total.gamma2_keeton_total = total.gamma2_add_total
        /\ total.gamma2_tom_total = total.gamma2_add_total

\* C4 amended: with beta = 0 everywhere the gamma totals of the three schemes
\* agree for every foreground_kappas, the keeton and tom kappa totals agree,
\* and kappa_add_total is their value less np.sum(foreground_kappas): equal to
\* them when foreground_kappas is not supplied.
C4_AgreeUpToVoidCorrection ==
    (CombinedAll /\ AllBetaZero) =>
        /\ total.gamma1_keeton_total = total.gamma1_add_total
        /\ total.gamma1_tom_total = total.gamma1_add_total
        /\ total.gamma2_keeton_total = total.gamma2_add_total
        /\ total.gamma2_tom_total = total.gamma2_add_total
        /\ total.kappa_keeton_total = total.kappa_tom_total
        /\ total.kappa_add_total = RSub(total.kappa_keeton_total, FkSum)
        /\ ~call.fk.given => total.kappa_add_total = total.kappa_keeton_total

\* C4 witness: all three schemes over two galaxies in front of the lens, one
\* of them sheared, with no foreground correction.
C4_Witness ==
    /\ CombinedAll
    /\ AllBetaZero
    /\ ~call.fk.given
    /\ Len(galaxies) = 2
    /\ total.kappa_add_total # Zero
    /\ total.gamma2_add_total # Zero
    /\ total.gamma1_add_total # total.gamma2_add_total

KnownSchemes == {"add", "keeton", "tom"}

\* C5: a call of combineKappas naming a scheme other than 'add', 'keeton',
\* 'tom' does not return normally: it raises.
C5_UnknownSchemeRaises ==
    (/\ call.op = "combineKappas"
     /\ \E i \in 1..Len(call.methods) : call.methods[i] \notin KnownSchemes)
        => raised # "none"

SchemeKappaTotals == {"kappa_add_total", "kappa_keeton_total", "kappa_tom_total"}

SchemeGammaTotals == {"gamma1_add_total", "gamma2_add_total", "gamma1_keeton_total",
                      "gamma2_keeton_total", "gamma1_tom_total", "gamma2_tom_total"}

C7_MuFormula ==
    (call.op = "combineMus" /\ raised = "none") =>
        /\ "mu_add_total" \in attrs
        /\ total.mu_add_total = ret
        /\ IF call.flag
           THEN ret = RAdd(One, RMul(Two, total.kappa_add_total))
           ELSE IsQuotient(ret, One,
                    RSub(RMul(RSub(One, total.kappa_add_total),
                              RSub(One, total.kappa_add_total)),
                         RAdd(RMul(ConeSum("gamma1"), ConeSum("gamma1")),
                              RMul(ConeSum("gamma2"), ConeSum("gamma2")))))

\* C7 witness: the exact form over two galaxies with both shear sums non-zero
\* and a finite result.
C7_Witness ==
    /\ call.op = "combineMus"
    /\ raised = "none"
    /\ ~call.flag
    /\ Len(galaxies) = 2
    /\ ConeSum("gamma1") # Zero
    /\ ConeSum("gamma2") # Zero
    /\ IsFinite(ret)
    /\ ret # One

\* C8: when combineMus(weakapprox=False) returns normally, the magnification
\* it returned is a finite number (a zero denominator is reported instead).
C8_NoSilentInfinity ==
    (call.op = "combineMus" /\ ~call.flag /\ raised = "none") => IsFinite(ret)

----------------------------------------------------------------------------
(* BackgroundCatalog: the ellipticity composition of lens_by_map and       *)
(* lens_by_halos.  The two methods carry the same block of code.           *)

\* g = (gamma1 + 1j*gamma2)/(1.0-kappa)
ReducedShear(kappa, gamma1, gamma2) ==
    CDivReal(Cx(gamma1, gamma2), RSub(One, kappa))

\* A variant that also flags a source with |g| = 0.5
NearStrongInclusive(g) == ~RLt(CAbs2(g), Norm(1, 4))

\* np.abs(g) > 0.5
NearStrong(g) == RGt(CAbs2(g), Norm(1, 4))

\* index = np.abs(g) < 1.0
WeakIndex(g) == RLt(CAbs2(g), One)

\* A variant of the weak branch without the conjugate of g.
WeakEllipticityNoConj(e1_int, e2_int, g) ==
    CDiv(CAdd(Cx(e1_int, e2_int), g),
         CAdd(COne, CMul(g, Cx(e1_int, e2_int))))

\* e[index] = ((e1_int + 1j*e2_int) + g) / (1.0 + g_conj*(e1_int + 1j*e2_int))
WeakEllipticity(e1_int, e2_int, g) ==
    CDiv(CAdd(Cx(e1_int, e2_int), g),
         CAdd(COne, CMul(CConj(g), Cx(e1_int, e2_int))))

\* The strong branch with g in place of its conjugate in the denominator
StrongEllipticityPlainG(e1_int, e2_int, g) ==
    CDiv(CAdd(COne, CMul(g, Cx(e1_int, e2_int))), CAdd(Cx(e1_int, e2_int), g))

\* e[~index] = (1.0 + g*(e1_int_conj + 1j*e2_int_conj))
\*              / ((e1_int_conj + 1j*e2_int_conj) + g_conj)
\* where e1_int_conj and e2_int_conj are the conjugates of the two real
\* components, taken one by one.
StrongEllipticity(e1_int, e2_int, g) ==
    LET e1_int_conj == RealConjugate(e1_int)
        e2_int_conj == RealConjugate(e2_int)
    IN  CDiv(CAdd(COne, CMul(g, Cx(e1_int_conj, e2_int_conj))),
             CAdd(Cx(e1_int_conj, e2_int_conj), CConj(g)))

\* The lensing columns of one source, from the convergence and shear at it.
\* eMod is kept as its square; ePhi (an arctangent) is not represented.
LensRow(row, kappa, gamma1, gamma2) ==
    Only({ [row EXCEPT !.strong_flag = IF NearStrong(g) THEN 1 ELSE @,
                       !.kappa = kappa, !.gamma1 = gamma1, !.gamma2 = gamma2,
                       !.g = g, !.e1 = e.re, !.e2 = e.im, !.eMod2 = CAbs2(e)]
           : <<g, e>> \in
             { <<h, IF WeakIndex(h)
                    THEN WeakEllipticity(row.e1_int, row.e2_int, h)
                    ELSE StrongEllipticity(row.e1_int, row.e2_int, h)>>
               : h \in {ReducedShear(kappa, gamma1, gamma2)} } })

\* One row of BackgroundCatalog.galaxies as generate leaves it
\* (strong_flag = 0), with the lensing columns not yet written.  label is
\* the row's label in the DataFrame index (0-based).
SourceRow(label, pos, e_int) ==
    [label |-> label, RA |-> pos[1], Dec |-> pos[2],
     e1_int |-> e_int[1], e2_int |-> e_int[2], strong_flag |-> 0,
     kappa |-> Zero, gamma1 |-> Zero, gamma2 |-> Zero, g |-> Cx(Zero, Zero),
     e1 |-> Zero, e2 |-> Zero, eMod2 |-> Zero]

\* Source positions (ticks) and intrinsic ellipticities <<e1_int, e2_int>>
SrcPos == {<<0, 0>>, <<3, 0>>}
EInts == {<<Half, Zero>>, <<Zero, Half>>, <<RNeg(Half), Half>>}

\* What a convergence map and a shear map return at one position:
\* <<kappa, gamma1, gamma2>>.  The reduced shears are 0, 1/2, (1+i)/2, 1, 1+i.
MapValues ==
    { <<Zero, Zero, Zero>>, <<Zero, Half, Zero>>,
      <<Half, Norm(1, 4), Norm(1, 4)>>,
      <<Zero, One, Zero>>, <<Half, Half, Half>> }

\* kappamap.at / shearmap.at: a value for every position
Maps == [SrcPos -> MapValues]

\* Is label l in the index of table t?
HasLabel(t, l) == \E j \in 1..Len(t) : t[j].label = l

\* The labels range(galaxy_count) runs over that are not in the index.
MissingLabels == {l \in 0..(bg_count - 1) : ~HasLabel(bg, l)}

Min(S) == CHOOSE x \in S : \A y \in S : x <= y

\* BackgroundCatalog.lens_by_map(kappamap, shearmap), the maps given by m.
\* The loop reads ra[i] by label for i in range(galaxy_count): a label that
\* is gone from the index ends the call before anything is written.
LensByMap(m) ==
    /\ IF MissingLabels # {}
       THEN /\ raised' = "KeyError"
            /\ UNCHANGED bgVars
       ELSE \E written \in
              { [i \in 1..Len(bg) |->
                   LensRow(bg[i], m[<<bg[i].RA, bg[i].Dec>>][1],
                           m[<<bg[i].RA, bg[i].Dec>>][2],
                           m[<<bg[i].RA, bg[i].Dec>>][3])] } :
            \E kept \in { SelectRows(written,
                            [i \in 1..Len(written) |->
                               written[i].strong_flag # 1]) } :
              /\ bg' = kept
              /\ bg_removed' =
                    SumSeq([i \in 1..Len(kept) |-> R(kept[i].strong_flag)])[1]
              /\ bg_count' = bg_count - bg_removed'
              /\ lensed' = [by |-> "map", rows |-> written]
              /\ raised' = "none"
              /\ UNCHANGED <<lightcones, compose, fieldVars>>
    /\ call' = CallRec("lens_by_map", << >>, NoFk, FALSE, 0)
    /\ UNCHANGED coneVars

\* A slot of the lightcones array: np.zeros(galaxy_count, dtype='object')
\* fills it with 0, the drilling loop with Lightcone(..., position, ID=i).
\* stage is how far the cone's pipeline has run.
ZeroSlot == [set |-> FALSE, ID |-> 0, RA |-> 0, Dec |-> 0, stage |-> "zero"]
ConeSlot(i, row) ==
    [set |-> TRUE, ID |-> i, RA |-> row.RA, Dec |-> row.Dec, stage |-> "snapped"]

\* The array drill_lightcones leaves in self.lightcones: the loop reads
\* self.galaxies['RA'][i] by label and stops at the first label missing.
DrilledCones ==
    LET stop == IF MissingLabels = {} THEN bg_count ELSE Min(MissingLabels)
    IN  [k \in 1..bg_count |->
           IF k - 1 < stop THEN ConeSlot(k - 1, bg[k]) ELSE ZeroSlot]

\* BackgroundCatalog.drill_lightcones()
DrillLightcones ==
    /\ lightcones' = [drilled |-> TRUE, cones |-> DrilledCones]
    /\ raised' = IF MissingLabels = {} THEN "none" ELSE "KeyError"
    /\ call' = CallRec("drill_lightcones", << >>, NoFk, FALSE, 0)
    /\ UNCHANGED <<coneVars, bg, bg_count, bg_removed, lensed, compose, fieldVars>>

\* BackgroundCatalog.lens_by_halos(...).  Every lightcone is handed to
\* combineKappas(methods=..., smooth_corr=...), a keyword Lightcone.combineKappas
\* does not take: with one cone or more the first pass of the loop ends the
\* call, for every setting of the arguments, and the ellipticity block is
\* reached with an empty catalog only.
LensByHalos ==
    /\ \E cones \in { IF lightcones.drilled THEN lightcones.cones
                      ELSE DrilledCones } :
         IF ~lightcones.drilled /\ MissingLabels # {}
         THEN \* drill_lightcones, called from here, raised
              /\ lightcones' = [drilled |-> TRUE, cones |-> cones]
              /\ raised' = "KeyError"
              /\ UNCHANGED <<bg, bg_count, bg_removed, lensed, compose, fieldVars>>
         ELSE IF bg_count # Len(cones)
         THEN /\ lightcones' = [drilled |-> TRUE, cones |-> cones]
              /\ raised' = "AssertionError"
              /\ UNCHANGED <<bg, bg_count, bg_removed, lensed, compose, fieldVars>>
         ELSE IF cones # << >> /\ ~cones[1].set
         THEN \* lightcone.ID of the integer 0
              /\ lightcones' = [drilled |-> TRUE, cones |-> cones]
              /\ raised' = "AttributeError"
              /\ UNCHANGED <<bg, bg_count, bg_removed, lensed, compose, fieldVars>>
         ELSE IF cones # << >>
         THEN \* relevance cut, drawConcentrations, makeKappas, then the call
              /\ lightcones' =
                    [drilled |-> TRUE,
                     cones |-> [cones EXCEPT ![1].stage = "kappas"]]
              /\ raised' = "TypeError"
              /\ UNCHANGED <<bg, bg_count, bg_removed, lensed, compose, fieldVars>>
         ELSE \E written \in
                { [i \in 1..Len(bg) |-> LensRow(bg[i], Zero, Zero, Zero)] } :
              /\ lightcones' = [drilled |-> TRUE, cones |-> cones]
              /\ bg' = [i \in 1..Len(bg) |->
                          [bg[i] EXCEPT !.strong_flag = written[i].strong_flag]]
              /\ lensed' = [by |-> "halos", rows |-> written]
              /\ raised' = "none"
              /\ UNCHANGED <<bg_count, bg_removed, compose, fieldVars>>
    /\ call' = CallRec("lens_by_halos", << >>, NoFk, FALSE, 0)
    /\ UNCHANGED coneVars

\* A background catalog after generate; no cone is under study.
InitLens ==
    /\ \E n \in 0..MaxSrc :
         \E ps \in [1..n -> SrcPos], es \in [1..n -> EInts] :
           bg = [i \in 1..n |-> SourceRow(i - 1, ps[i], es[i])]
    /\ bg_count = Len(bg)
    /\ bg_removed = 0
    /\ lightcones = NoLightcones
    /\ lensed = NoLensing
    /\ compose = NoCompose
    /\ NoField
    /\ catalog = << >>
    /\ built = FALSE
    /\ xc = <<0, 0>>
    /\ rmax = 0
    /\ galaxies = << >>
    /\ galaxy_count = 0
    /\ zs = -1
    /\ zl = -1
    /\ cat_columns = CatColumns
    /\ printed = ""
    /\ valid = NoValid
    /\ columns = {}
    /\ attrs = {}
    /\ total = NoTotals
    /\ raised = "none"
    /\ ret = Zero
    /\ call = NoCall

NextLens ==
    \/ \E m \in Maps : LensByMap(m)
    \/ DrillLightcones
    \/ LensByHalos

SpecLens == InitLens /\ [][NextLens]_vars

----------------------------------------------------------------------------
(* Claims about the observed ellipticities.                                *)

\* The reduced shear of a written row, from its kappa, gamma1 and gamma2
ShearOf(row) ==
    CDivReal(Cx(row.gamma1, row.gamma2), RSub(One, row.kappa))

EIntOf(row) == Cx(row.e1_int, row.e2_int)
EObsOf(row) == Cx(row.e1, row.e2)

\* q is the quotient num / den of two complex numbers, den not zero
IsCQuotient(q, num, den) == den # CZero /\ CMul(q, den) = num

\* C9: every source whose reduced shear g = (gamma1 + i gamma2)/(1 - kappa)
\* has |g| < 1 is written with e_obs = (e_int + g) / (1 + conj(g) e_int),
\* e_int = e1_int + i e2_int, by lens_by_map and by lens_by_halos.
C9_WeakFormula ==
    \A i \in 1..Len(lensed.rows) :
      LET row == lensed.rows[i]
          g == ShearOf(row)
      IN  RLt(CAbs2(g), One) =>
            IsCQuotient(EObsOf(row), CAdd(EIntOf(row), g),
                        CAdd(COne, CMul(CConj(g), EIntOf(row))))

\* A lensing call has written a source with 0 < |g| < 1, g not real, whose
\* intrinsic ellipticity has an imaginary part, and the source is still in
\* the catalog.
C9_Witness ==
    /\ lensed.by = "map"
    /\ raised = "none"
    /\ \E i \in 1..Len(lensed.rows) :
         LET row == lensed.rows[i]
         IN  /\ RLt(CAbs2(ShearOf(row)), One)
             /\ ShearOf(row).im # Zero
             /\ row.e2_int # Zero
             /\ EObsOf(row) # EIntOf(row)
    /\ \E j \in 1..Len(bg) :
         /\ bg[j].g.re # Zero
         /\ bg[j].e2_int # Zero
         /\ EObsOf(bg[j]) # EIntOf(bg[j])

\* C10: every source whose reduced shear has |g| >= 1 is written with
\* e_obs = (1 + g conj(e_int)) / (conj(e_int) + conj(g)), where
\* conj(e_int) = e1_int - i e2_int.
C10_StrongFormula ==
    \A i \in 1..Len(lensed.rows) :
      LET row == lensed.rows[i]
          g == ShearOf(row)
      IN  ~RLt(CAbs2(g), One) =>
            IsCQuotient(EObsOf(row),
                        CAdd(COne, CMul(g, CConj(EIntOf(row)))),
                        CAdd(CConj(EIntOf(row)), CConj(g)))

----------------------------------------------------------------------------
(* The two branches of the ellipticity composition as functions of one     *)
(* intrinsic ellipticity and one reduced shear.                            *)

\* Reduced shears: on the unit circle (1, -1, i, -i, (3+4i)/5, (-4+3i)/5),
\* inside it (1/2) and outside it (1+i)
ComposeShears ==
    { Cx(One, Zero), Cx(RNeg(One), Zero), Cx(Zero, One), Cx(Zero, RNeg(One)),
      Cx(Norm(3, 5), Norm(4, 5)), Cx(Norm(-4, 5), Norm(3, 5)),
      Cx(Half, Zero), Cx(One, One) }

\* Intrinsic ellipticity components, within [-1, 1] as generate leaves them
ComposeComponents == {RNeg(One), RNeg(Half), Zero, Half, Norm(4, 5)}

InitBranch ==
    /\ \E e1 \in ComposeComponents, e2 \in ComposeComponents, g \in ComposeShears :
         compose = [NoCompose EXCEPT !.e1_int = e1, !.e2_int = e2, !.g = g]
    /\ NoField
    /\ bg = << >>
    /\ bg_count = 0
    /\ bg_removed = 0
    /\ lightcones = NoLightcones
    /\ lensed = NoLensing
    /\ catalog = << >>
    /\ built = FALSE
    /\ xc = <<0, 0>>
    /\ rmax = 0
    /\ galaxies = << >>
    /\ galaxy_count = 0
    /\ zs = -1
    /\ zl = -1
    /\ cat_columns = CatColumns
    /\ printed = ""
    /\ valid = NoValid
    /\ columns = {}
    /\ attrs = {}
    /\ total = NoTotals
    /\ raised = "none"
    /\ ret = Zero
    /\ call = NoCall

\* The weak-branch expression evaluated on the inputs
ComposeWeak ==
    /\ "weak" \notin compose.did
    /\ compose' = [compose EXCEPT
                     !.weak = WeakEllipticity(compose.e1_int, compose.e2_int, compose.g),
                     !.did = @ \cup {"weak"}]
    /\ UNCHANGED <<coneVars, bg, bg_count, bg_removed, lightcones, lensed, fieldVars,
                   raised, call>>

\* The strong-branch expression evaluated on the inputs
ComposeStrong ==
    /\ "strong" \notin compose.did
    /\ compose' = [compose EXCEPT
                     !.strong = StrongEllipticity(compose.e1_int, compose.e2_int, compose.g),
                     !.did = @ \cup {"strong"}]
    /\ UNCHANGED <<coneVars, bg, bg_count, bg_removed, lightcones, lensed, fieldVars,
                   raised, call>>

NextBranch == ComposeWeak \/ ComposeStrong

SpecBranch == InitBranch /\ [][NextBranch]_vars

\* The denominators of the two branches as written in the code
WeakDenominator(e_int, g) == CAdd(COne, CMul(CConj(g), e_int))
StrongDenominator(e_int, g) == CAdd(e_int, CConj(g))

\* C11: for every reduced shear with |g| = 1 and every intrinsic ellipticity
\* for which both denominators are non-zero, the weak-branch and the
\* strong-branch formulas, as implemented, give the same observed ellipticity.
C11_BranchesAgreeAtBoundary ==
    LET e_int == Cx(compose.e1_int, compose.e2_int)
    IN  ( /\ compose.did = {"weak", "strong"}
          /\ CAbs2(compose.g) = One
          /\ WeakDenominator(e_int, compose.g) # CZero
          /\ StrongDenominator(e_int, compose.g) # CZero )
        => compose.weak = compose.strong

\* Both branches have been evaluated at a shear on the unit circle off the
\* axes, for an intrinsic ellipticity with both components non-zero and both
\* denominators non-zero.
C11_Witness ==
    LET e_int == Cx(compose.e1_int, compose.e2_int)
    IN  /\ compose.did = {"weak", "strong"}
        /\ CAbs2(compose.g) = One
        /\ compose.g.re # Zero /\ compose.g.im # Zero
        /\ compose.e1_int # Zero /\ compose.e2_int # Zero
        /\ WeakDenominator(e_int, compose.g) # CZero
        /\ StrongDenominator(e_int, compose.g) # CZero
        /\ compose.weak = compose.g

----------------------------------------------------------------------------
(* Claims about the strong-lensing flag and the counts of lens_by_map.     *)

\* |g| > 0.5 for the reduced shear of a written row, cleared of the root
ShearAboveHalf(row) == RLt(Norm(1, 4), CAbs2(ShearOf(row)))

\* the rows of table t whose strong_flag is not 1, in table order
UnflaggedRows(t) ==
    SelectRows(t, [i \in 1..Len(t) |-> t[i].strong_flag # 1])

\* C12: lens_by_map flags exactly the sources with |g| > 0.5, and the
\* catalog it leaves holds none of the flagged sources and all the others.
C12_FlagsAndExclusion ==
    lensed.by = "map" =>
        /\ \A i \in 1..Len(lensed.rows) :
              (lensed.rows[i].strong_flag = 1) <=> ShearAboveHalf(lensed.rows[i])
        /\ bg = UnflaggedRows(lensed.rows)

\* lens_by_map has returned after writing a source with |g| > 0.5, which it
\* dropped, and a source with |g| = 0.5 exactly, which it kept.
C12_Witness ==
    /\ call.op = "lens_by_map"
    /\ raised = "none"
    /\ \E i \in 1..Len(lensed.rows) :
         /\ ShearAboveHalf(lensed.rows[i])
         /\ ~HasLabel(bg, lensed.rows[i].label)
    /\ \E j \in 1..Len(bg) : CAbs2(bg[j].g) = Norm(1, 4)

\* C13: after lens_by_map, strong_lensed_removed is the number of sources
\* excluded as flagged and galaxy_count is the number of rows remaining.
C13_CountsAfterLensByMap ==
    (call.op = "lens_by_map" /\ raised = "none") =>
        /\ bg_removed = Len(lensed.rows) - Len(bg)
        /\ bg_count = Len(bg)

----------------------------------------------------------------------------
(* Claims about defineSystem and the construction of a cone.               *)

\* C14: defineSystem(zl, zs) records zl and zs and leaves in the cone
\* exactly the galaxies that were in it with redshift below zs + 0.2, in
\* their order; galaxy_count follows.
C14_DefineSystem ==
    [][ call'.op = "defineSystem" =>
          /\ raised' = "none"
          /\ zl' = call'.num2
          /\ zs' = call'.num
          /\ galaxies' = SelectRows(galaxies,
                            [i \in 1..Len(galaxies) |->
                               galaxies[i].z_obs < call'.num + 2])
          /\ \A i \in 1..Len(galaxies) :
                galaxies[i].z_obs >= call'.num + 2
                    => \A j \in 1..Len(galaxies') : galaxies'[j] # galaxies[i]
       ]_vars

\* defineSystem has returned on a cone that held a galaxy at or beyond
\* zs + 0.2 (now gone) and a galaxy below it (still there).
C14_Witness ==
    /\ call.op = "defineSystem"
    /\ raised = "none"
    /\ galaxies # << >>
    /\ \E i \in 1..Len(ConeTable(catalog, xc, rmax)) :
          ConeTable(catalog, xc, rmax)[i].z_obs = zs + 2
    /\ Len(galaxies) < Len(ConeTable(catalog, xc, rmax))

\* The rows of cat that pass the square cut and the circle trim about c
GeometricRows(cat, c, radius) ==
    SelectRows(cat, [i \in 1..Len(cat) |->
                        InSquare(cat[i], c, radius) /\ InCircle(cat[i], c, radius)])

\* C15: construction from a catalog with a Type column leaves no galaxy of
\* Type 2 in the cone; construction from a catalog without that column
\* completes without error and drops nothing on the basis of type.
C15_TypeColumnOptional ==
    (call.op = "Lightcone" /\ catalog # << >>) =>
        IF "Type" \in cat_columns
        THEN built /\ \A i \in 1..Len(galaxies) : galaxies[i].Type # 2
        ELSE /\ raised = "none"
             /\ built
             /\ Len(galaxies) = Len(GeometricRows(catalog, xc, rmax))

\* No row of the catalog passes the geometric filter of the construction
\* call: of the cone built, or of every centre and radius when none was.
NoneInCone ==
    IF built THEN GeometricRows(catalog, xc, rmax) = << >>
    ELSE \A c \in Centres, radius \in Radii :
            GeometricRows(catalog, c, radius) = << >>

\* C16: when no catalog galaxy passes the geometric filter, construction
\* completes with an empty table and galaxy_count = 0 and reports the empty
\* cone as a warning.
C16_EmptyConeNotFatal ==
    (call.op = "Lightcone" /\ "Type" \in cat_columns /\ NoneInCone) =>
        /\ raised = "none"
        /\ built
        /\ galaxies = << >>
        /\ galaxy_count = 0
        /\ printed = EmptyWarning

----------------------------------------------------------------------------
(* One realization of a cone: snapToGrid, drawConcentrations, makeKappas,  *)
(* combineKappas, combineMus, called in any order and any number of times. *)

\* snapToGrid(Grid): the beta column stands for the columns it writes
\* (z_sz, Da_p, rho_crit, sigma_crit, beta, rphys, f_kappa).
SnapToGrid ==
    /\ built
    /\ galaxies' = [i \in 1..Len(galaxies) |-> SnapRow(galaxies[i])]
    /\ columns' = columns \cup {"beta"}
    /\ raised' = "none"
    /\ call' = CallRec("snapToGrid", << >>, NoFk, FALSE, 0)
    /\ UNCHANGED <<catalog, cat_columns, printed, valid, built, xc, rmax,
                   galaxy_count, zs, zl, attrs, total, ret, bgVars>>

\* The outcomes of one draw of the concentrations (MCrelation with scatter)
C200Draws == {1, 2}

\* One row after drawConcentrations with draw d of c200: X = rphys/r_s with
\* r_s = r200/c200 and rphys = r*arcmin2rad*Da_p, kept as its square in
\* units of r200/(arcmin2rad*Da_p): X**2 = r**2 * c200**2
DrawRow(row, d) == [row EXCEPT !.c200 = d, !.X2 = RMul(row.r2, R(d * d))]

\* drawConcentrations(errors=True): the c200 column stands for r200, c200
\* and rs.  galaxies['rho_crit'] is read first: KeyError before snapToGrid.
DrawConcentrations(d) ==
    /\ built
    /\ IF "beta" \notin columns
       THEN /\ raised' = "KeyError"
            /\ UNCHANGED <<galaxies, columns>>
       ELSE /\ galaxies' = [i \in 1..Len(galaxies) |-> DrawRow(galaxies[i], d)]
            /\ columns' = columns \cup {"c200"}
            /\ raised' = "none"
    /\ call' = CallRec("drawConcentrations", << >>, NoFk, TRUE, d)
    /\ UNCHANGED <<catalog, cat_columns, printed, valid, built, xc, rmax,
                   galaxy_count, zs, zl, attrs, total, ret, bgVars>>

\* <<kappa, gamma>> = <<kappa_s*F, kappa_s*(G-F)>> of one galaxy.  F and G
\* come from pangloss.BMO1Ffunc, BMO1Gfunc, BMO2Ffunc, BMO2Gfunc, which are
\* not part of the sources: they are functions of the galaxy's X, rs, r200
\* and c200, which here vary with the draw of c200 only.
ProfileKG(c200, profile) ==
    IF profile = "BMO1"
    THEN (IF c200 = 1 THEN <<One, Zero>> ELSE <<Half, One>>)
    ELSE (IF c200 = 1 THEN <<Half, One>> ELSE <<One, One>>)

KnownProfiles == {"BMO1", "BMO2"}

\* The profile names handed to makeKappas in a realization
RealizeProfiles == {"BMO1", "NFW"}

\* The table after a makeKappas that returns
MakeKappasTable(t, profile) ==
    [i \in 1..Len(t) |->
        MakeKappasRow(t[i], ProfileKG(t[i].c200, profile)[1],
                      ProfileKG(t[i].c200, profile)[2])]

\* makeKappas(profile=...): galaxies['c200'] is read first, then kappa_s is
\* set on the cone; with a profile other than BMO1 and BMO2 neither F nor G
\* is bound and "kappa = 1.0*self.kappa_s*F" raises UnboundLocalError before
\* a column is written.
MakeKappas(profile) ==
    /\ built
    /\ IF "c200" \notin columns
       THEN /\ raised' = "KeyError"
            /\ UNCHANGED <<galaxies, columns, attrs>>
       ELSE IF profile \notin KnownProfiles
       THEN /\ raised' = "UnboundLocalError"
            /\ attrs' = attrs \cup {"kappa_s"}
            /\ UNCHANGED <<galaxies, columns>>
       ELSE /\ galaxies' = MakeKappasTable(galaxies, profile)
            /\ columns' = columns \cup {"kappa"}
            /\ attrs' = attrs \cup {"kappa_s"}
            /\ raised' = "none"
    /\ call' = [CallRec("makeKappas", << >>, NoFk, FALSE, 0) EXCEPT !.methods = <<profile>>]
    /\ UNCHANGED <<catalog, cat_columns, printed, valid, built, xc, rmax,
                   galaxy_count, zs, zl, total, ret, bgVars>>

\* The catalog rows the cones of a realization are built from
RealizeRows == {CatRow(3, 0, 0, 2), CatRow(2, 2, 0, 10)}

\* The methods lists handed to combineKappas in a realization
RealizeMethodArgs ==
    {MethodsList(<<"add", "keeton", "tom">>), MethodsList(<<"keeton">>),
     MethodsList(<<"tom", "add">>)}

\* A cone after construction and defineSystem.
InitRealize ==
    /\ catalog = << >>
    /\ cat_columns = CatColumns
    /\ built = TRUE
    /\ xc = ConeCentre
    /\ rmax = ConeRadius
    /\ \E rows \in SeqsUpTo(RealizeRows, MaxGal) :
          /\ galaxies = ConeTable(rows, ConeCentre, ConeRadius)
          /\ Len(galaxies) = Len(rows)
    /\ galaxy_count = Len(galaxies)
    /\ zs = ConeZs
    /\ zl = ConeZl
    /\ printed = ""
    /\ valid = NoValid
    /\ columns = {}
    /\ attrs = {}
    /\ total = NoTotals
    /\ raised = "none"
    /\ ret = Zero
    /\ bg = << >>
    /\ bg_count = 0
    /\ bg_removed = 0
    /\ lightcones = NoLightcones
    /\ lensed = NoLensing
    /\ compose = NoCompose
    /\ NoField
    /\ call = NoCall

NextRealize ==
    \/ SnapToGrid
    \/ \E d \in C200Draws : DrawConcentrations(d)
    \/ \E profile \in RealizeProfiles : MakeKappas(profile)
    \/ \E arg \in RealizeMethodArgs : CombineKappas(arg, NoFk)
    \/ CombineMus(TRUE)

SpecRealize == InitRealize /\ [][NextRealize]_vars

\* makeKappas -> combineKappas on the cone state st, each stage returning
\* normally
RealizeKappas(st, profile, arg, fk) ==
    LET made == [st EXCEPT !.galaxies = MakeKappasTable(@, profile),
                           !.columns = @ \cup {"kappa"},
                           !.attrs = @ \cup {"kappa_s"}]
    IN  ApplyMethods(MethodList(arg), made, fk)

\* makeKappas -> combineKappas -> combineMus on the cone state st
Realization(st, profile, arg, fk, weakapprox) ==
    CombineMusState(RealizeKappas(st, profile, arg, fk), weakapprox)

\* No stage of Realization raises on st: the columns of snapToGrid and
\* drawConcentrations are there, the profile is known, and kappa_add_total
\* is computed in the run or was computed before
Realizable(st, profile, arg) ==
    /\ {"beta", "c200"} \subseteq st.columns
    /\ profile \in KnownProfiles
    /\ InSeq("add", MethodList(arg)) \/ "kappa_add_total" \in st.attrs

----------------------------------------------------------------------------
(* Claims about the realization of a cone.                                 *)

Stages == {"snapToGrid", "drawConcentrations", "makeKappas", "combineKappas",
           "combineMus"}

\* C17: when a stage of a realization fails on a cone whose totals were
\* computed before, the per-galaxy columns are those the totals were last
\* computed from: no column of the new realization stands beside the totals
\* of the previous one.
C17_NoHalfRealization ==
    (call.op \in Stages /\ raised # "none" /\ valid.set) =>
        /\ Col(galaxies, "c200") = valid.c200
        /\ Col(galaxies, "kappa") = valid.kappa
        /\ Col(galaxies, "gamma") = valid.gamma

----------------------------------------------------------------------------
(* Claims about the batch loop of lens_by_halos.                           *)

\* C18: a failure while lens_by_halos processes one cone does not stop the
\* loop: every other cone that was drilled is still taken through its
\* stages.
C18_FailureIsolated ==
    (call.op = "lens_by_halos" /\ raised = "TypeError") =>
        \A k \in 1..Len(lightcones.cones) :
            lightcones.cones[k].set => lightcones.cones[k].stage = "kappas"

----------------------------------------------------------------------------
(* Claims about repeated realizations.                                     *)

\* The columns and totals scheme s writes
SchemeColumns(s) ==
    IF s = "add" THEN {"kappa_add", "gamma1_add", "gamma2_add"}
    ELSE IF s = "keeton" THEN {"kappa_keeton", "gamma1_keeton", "gamma2_keeton"}
    ELSE IF s = "tom" THEN {"kappa_tom", "gamma1_tom", "gamma2_tom"}
    ELSE {}

SchemeTotals(s) ==
    IF s = "add" THEN {"kappa_add_total", "gamma1_add_total", "gamma2_add_total"}
    ELSE IF s = "keeton"
    THEN {"kappa_keeton_total", "gamma1_keeton_total", "gamma2_keeton_total"}
    ELSE IF s = "tom" THEN {"kappa_tom_total", "gamma1_tom_total", "gamma2_tom_total"}
    ELSE {}

\* The cone st with nothing of an earlier makeKappas, combineKappas or
\* combineMus on it
Unrealized(st) ==
    [galaxies |-> [i \in 1..Len(st.galaxies) |->
                     [st.galaxies[i] EXCEPT
                        !.kappa = Zero, !.gamma = Zero, !.gamma1 = Zero,
                        !.gamma2 = Zero, !.mu = Zero,
                        !.kappa_add = Zero, !.gamma1_add = Zero, !.gamma2_add = Zero,
                        !.kappa_keeton = Zero, !.gamma1_keeton = Zero,
                        !.gamma2_keeton = Zero,
                        !.kappa_tom = Zero, !.gamma1_tom = Zero, !.gamma2_tom = Zero]],
     columns |-> {"beta", "c200"},
     attrs |-> {},
     total |-> NoTotals]

\* The results of a run in states a and b agree on what the run computes
\* with the methods of arg
SameResults(a, b, arg) ==
    /\ \A c \in {"kappa", "gamma", "gamma1", "gamma2", "mu"} :
          Col(a.galaxies, c) = Col(b.galaxies, c)
    /\ \A i \in 1..Len(MethodList(arg)) :
          /\ \A c \in SchemeColumns(MethodList(arg)[i]) :
                Col(a.galaxies, c) = Col(b.galaxies, c)
          /\ \A n \in SchemeTotals(MethodList(arg)[i]) : a.total[n] = b.total[n]
    /\ InSeq("add", MethodList(arg)) =>
          /\ a.total.G1sum = b.total.G1sum
          /\ a.total.G2sum = b.total.G2sum
          /\ a.total.mu_add_total = b.total.mu_add_total

\* The methods lists of the repeated runs: the default, and one that leaves
\* kappa_add_total as an earlier call computed it
RepeatMethodArgs ==
    {MethodsList(<<"add", "keeton", "tom">>), MethodsList(<<"keeton">>)}

\* C19: on every cone state on which makeKappas -> combineKappas ->
\* combineMus runs, a second run with the same arguments leaves the cone
\* exactly as the first did (every per-galaxy column, every total,
\* mu_add_total), and what a run computes is what it computes on the same
\* cone with nothing of an earlier run left on it.
C19_RepeatedRealization ==
    built =>
        \A profile \in RealizeProfiles, arg \in RepeatMethodArgs :
            Realizable(ConeState, profile, arg) =>
                \E once \in {Realization(ConeState, profile, arg, NoFk, TRUE)} :
                    /\ Realization(once, profile, arg, NoFk, TRUE) = once
                    /\ InSeq("add", MethodList(arg)) =>
                          SameResults(once,
                              Realization(Unrealized(ConeState), profile, arg,
                                          NoFk, TRUE),
                              arg)

\* C19 witness: the three stages have just run with BMO1 and the default
\* methods on a cone of two galaxies, one behind the lens with a non-zero
\* tom convergence, whose totals had been computed before from another
\* draw of the concentrations.
C19_Witness ==
    /\ call.op = "combineMus"
    /\ raised = "none"
    /\ Len(galaxies) = 2
    /\ ConeState = Realization(ConeState, "BMO1",
                       MethodsList(<<"add", "keeton", "tom">>), NoFk, TRUE)
    /\ \E i \in 1..2 : galaxies[i].kappa_tom # Zero /\ galaxies[i].beta # Zero
    /\ total.mu_add_total # One
    /\ \E i \in 1..2 : galaxies[i].c200 = 2

----------------------------------------------------------------------------
(* Claims about the independence of the schemes of combineKappas.          *)

\* The columns and totals of scheme s are the same in cone states a and b
SameScheme(s, a, b) ==
    /\ \A c \in SchemeColumns(s) : Col(a.galaxies, c) = Col(b.galaxies, c)
    /\ \A n \in SchemeTotals(s) : a.total[n] = b.total[n] /\ (n \in a.attrs <=> n \in b.attrs)

\* C20: in every call of combineKappas that returns, each scheme s named in
\* the methods list gets the columns and totals that combineKappas([s])
\* gives on the cone as it was before the call, whatever else the list names
\* and in whatever order, and each scheme not named keeps the columns and
\* totals it had before the call.
C20_SchemesIndependent ==
    [][(call'.op = "combineKappas" /\ raised' = "none") =>
          \E after \in {ConeState'} :
              \A s \in KnownSchemes :
                  IF InSeq(s, call'.methods)
                  THEN \E alone \in {ApplyMethods(<<s>>, ConeState, call'.fk)} :
                           SameScheme(s, after, alone)
                  ELSE SameScheme(s, after, ConeState)]_vars

\* C20 witness: combineKappas(['tom','add']) has returned on a cone of two
\* galaxies, one behind the lens, whose keeton totals were computed by an
\* earlier call from another draw of the concentrations: the keeton totals
\* are not those of the kappas now on the cone.
C20_Witness ==
    /\ call.op = "combineKappas"
    /\ raised = "none"
    /\ call.methods = <<"tom", "add">>
    /\ Len(galaxies) = 2
    /\ "kappa_keeton_total" \in attrs
    /\ total.kappa_keeton_total #
          ApplyMethods(<<"keeton">>, ConeState, NoFk).total.kappa_keeton_total
    /\ total.kappa_tom_total # total.kappa_add_total
    /\ total.kappa_tom_total # Zero

----------------------------------------------------------------------------
(* A field of cones: drill_lightcones builds one Lightcone per source from *)
(* one foreground catalog, one grid and one table of mean kappas; the      *)
(* Lightcone methods are then called on any cone, and lens_by_halos on the *)
(* catalog.                                                                *)

\* pangloss.Grid(zl, zs, nplanes) (not part of the sources): the redshifts of
\* the planes (tenths) and the beta of each plane, as GridBeta reads them
FieldGrid == [set |-> TRUE, redshifts |-> <<2, 10, 16>>,
              beta |-> <<GridBeta(2), GridBeta(10), GridBeta(16)>>]

\* foreground.mean_kappas: one value per plane of the grid
MeanKappas == <<Norm(1, 4), Norm(1, 4), Norm(1, 4)>>

\* set_relevance(lightcone, metric='curtis'): (10**Mh/M)*(R/rphys)**3, kept
\* as its square, for halos of mass M and rphys in units of R: 1/r**6.
\* A galaxy at the centre has rphys = 0 and relevance inf.
Relevance2(row) == RDiv(One, RMul(row.r2, RSq(row.r2)))

\* An entry of the lightcones array that was never assigned
NoCone ==
    [set |-> FALSE, ID |-> 0, xc |-> <<0, 0>>, rmax |-> 0, galaxies |-> << >>,
     galaxy_count |-> 0, zl |-> -1, zs |-> -1, redshifts |-> << >>,
     columns |-> {}, attrs |-> {}, total |-> NoTotals, drilled |-> << >>]

\* The Lightcone the drilling loop leaves at index i: Lightcone(lc_catalog,
\* flavor, position, radius, ID=i), defineSystem(self.zl, self.zs),
\* loadGrid(self.grid), snapToGrid(self.grid, self.foreground_kappas),
\* set_relevance.  drilled keeps the table as it is at that point.
DrilledCone(i, pos, cat, radius) ==
    Only({ [set |-> TRUE, ID |-> i, xc |-> pos, rmax |-> radius, galaxies |-> t2,
            galaxy_count |-> Len(t2), zl |-> ConeZl, zs |-> ConeZs,
            redshifts |-> FieldGrid.redshifts,
            columns |-> {"beta", "relevance"}, attrs |-> {"foreground_kappas"},
            total |-> NoTotals, drilled |-> t2]
           : t2 \in
             { [j \in 1..Len(t1) |->
                  [SnapRow(t1[j]) EXCEPT !.relevance2 = Relevance2(t1[j])]]
               : t1 \in
                 { SelectRows(t0, [j \in 1..Len(t0) |-> BelowSource(t0[j], ConeZs)])
                   : t0 \in {ConeTable(cat, pos, radius)} } } })

\* The tables of the array drill_lightcones leaves in self.lightcones
DrilledField ==
    Only({ [k \in 1..bg_count |->
              IF slots[k].set
              THEN DrilledCone(k - 1, <<bg[k].RA, bg[k].Dec>>, catalog, ConeRadius)
              ELSE NoCone]
           : slots \in {DrilledCones} })

\* BackgroundCatalog.drill_lightcones(foreground=...), the foreground
\* catalog being catalog: the cones with their tables.  lc_catalog is a new
\* table of five columns of foreground.galaxies; the 'mag' column is
\* written on lc_catalog.
DrillCones ==
    /\ IF catalog = << >> /\ bg_count > 0
       THEN \* np.max of an empty column in the first Lightcone(...)
            /\ lightcones' = [drilled |-> TRUE,
                              cones |-> [k \in 1..bg_count |-> ZeroSlot]]
            /\ field' = [k \in 1..bg_count |-> NoCone]
            /\ raised' = IF 0 \in MissingLabels THEN "KeyError" ELSE "ValueError"
       ELSE /\ lightcones' = [drilled |-> TRUE, cones |-> DrilledCones]
            /\ field' = DrilledField
            /\ raised' = IF MissingLabels = {} THEN "none" ELSE "KeyError"
    /\ grid' = FieldGrid
    /\ foreground_kappas' = MeanKappas
    /\ call' = CallRec("drill_lightcones", << >>, NoFk, FALSE, 0)
    /\ UNCHANGED <<coneVars, bg, bg_count, bg_removed, lensed, compose, recon>>

\* What a Lightcone method called on self = f[k] writes: attributes and
\* columns of self
StoreAllCones(f, k, c) == [j \in 1..Len(f) |-> IF f[j].set THEN c ELSE f[j]]

StoreCone(f, k, c) == [f EXCEPT ![k] = c]

\* The cone state st (galaxies, columns, attrs, total) written on cone c
WithState(c, st) ==
    [c EXCEPT !.galaxies = st.galaxies, !.columns = st.columns,
              !.attrs = st.attrs, !.total = st.total]

\* The Lightcone methods on a cone object c: the cone after the call, and
\* the exception raised ("none" if it returns)
DefineSystemOf(c, l, z) ==
    Only({ [cone |-> [c EXCEPT !.zl = l, !.zs = z, !.galaxies = t,
                               !.galaxy_count = Len(t)],
            raised |-> "none"]
           : t \in { SelectRows(c.galaxies,
                        [j \in 1..Len(c.galaxies) |->
                            BelowSource(c.galaxies[j], z)]) } })

LoadGridOf(c, g) ==
    [cone |-> [c EXCEPT !.redshifts = g.redshifts], raised |-> "none"]

SnapToGridOf(c) ==
    [cone |-> [c EXCEPT !.galaxies = [j \in 1..Len(@) |-> SnapRow(@[j])],
                        !.columns = @ \cup {"beta"}],
     raised |-> "none"]

DrawConcentrationsOf(c, d) ==
    IF "beta" \notin c.columns THEN [cone |-> c, raised |-> "KeyError"]
    ELSE [cone |-> [c EXCEPT !.galaxies = [j \in 1..Len(@) |-> DrawRow(@[j], d)],
                             !.columns = @ \cup {"c200"}],
          raised |-> "none"]

MakeKappasOf(c, profile) ==
    IF "c200" \notin c.columns THEN [cone |-> c, raised |-> "KeyError"]
    ELSE IF profile \notin KnownProfiles
    THEN [cone |-> [c EXCEPT !.attrs = @ \cup {"kappa_s"}],
          raised |-> "UnboundLocalError"]
    ELSE [cone |-> [c EXCEPT !.galaxies = MakeKappasTable(@, profile),
                             !.columns = @ \cup {"kappa"},
                             !.attrs = @ \cup {"kappa_s"}],
          raised |-> "none"]

CombineKappasOf(c, arg, fk) ==
    IF \/ "kappa" \notin c.columns
       \/ /\ InSeq("keeton", MethodList(arg)) \/ InSeq("tom", MethodList(arg))
          /\ "beta" \notin c.columns
    THEN [cone |-> c, raised |-> "KeyError"]
    ELSE [cone |-> WithState(c, ApplyMethods(MethodList(arg), c, fk)),
          raised |-> "none"]

CombineMusOf(c, weakapprox) ==
    IF "kappa" \notin c.columns THEN [cone |-> c, raised |-> "KeyError"]
    ELSE IF "kappa_add_total" \notin c.attrs
    THEN [cone |-> c, raised |-> "AttributeError"]
    ELSE [cone |-> WithState(c, CombineMusState(c, weakapprox)), raised |-> "none"]

\* lightcone.galaxies[lightcone.galaxies['relevance'] >= relevance_lim] and
\* the count (lens_by_halos), the limit given as its square
PruneOf(c, lim2) ==
    Only({ [c EXCEPT !.galaxies = t, !.galaxy_count = Len(t)]
           : t \in { SelectRows(c.galaxies,
                        [j \in 1..Len(c.galaxies) |->
                            ~IsNaN(c.galaxies[j].relevance2)
                               /\ ~RLt(c.galaxies[j].relevance2, lim2)]) } })

\* experiment.parameters: the photometric and spectroscopic radii and
\* depths (the list [''] when none is configured) and the depth band
Experiment(PR, PD, SR, SD, band) ==
    [PR |-> PR, PD |-> PD, SR |-> SR, SD |-> SD, band |-> band]

\* "mag_SDSS_%s" % band for the SDSS bands, "mag_%s" % band otherwise
DepthColumn(band) ==
    IF band \in {"u", "g", "r", "i", "z"} THEN "mag_SDSS_" \o band
    ELSE "mag_" \o band

\* configureForSurvey(experiment) on cone c whose catalog has the columns
\* cols.  photo_flag is written False on every row; the loop over PR reads
\* the depth column and then indexes the tuple np.where(...) with
\* 'identifier', which raises; without the loop the rows kept are those
\* with photo_flag == True: none.  galaxy_count is not set.
ConfigureForSurveyOf(c, experiment, cols) ==
    IF Len(experiment.PR) # Len(experiment.PD) \/ Len(experiment.SR) # Len(experiment.SD)
    THEN [cone |-> c, raised |-> "AssertionError"]
    ELSE IF experiment.PR # <<"">> /\ experiment.PR # << >>
    THEN [cone |-> [c EXCEPT !.columns = @ \cup {"photo_flag", "identifier"}],
          raised |-> IF DepthColumn(experiment.band) \in cols
                     THEN "TypeError" ELSE "KeyError"]
    ELSE [cone |-> [c EXCEPT !.galaxies = << >>,
                             !.columns = @ \cup {"photo_flag", "identifier",
                                                 "spec_flag"}],
          raised |-> "none"]

\* A call of a Lightcone method on self.lightcones[k - 1] with outcome res
MethodOn(k, name, res) ==
    /\ \E r \in {res} :
          /\ field' = StoreCone(field, k, r.cone)
          /\ raised' = r.raised
    /\ call' = [CallRec(name, << >>, NoFk, FALSE, 0) EXCEPT !.num2 = k]
    /\ UNCHANGED <<coneVars, bg, bg_count, bg_removed, lightcones, lensed, compose,
                   grid, foreground_kappas, recon>>

IsCone(k) == field[k].set

FieldDefineSystem(k, l, z) ==
    IsCone(k) /\ MethodOn(k, "defineSystem", DefineSystemOf(field[k], l, z))

FieldLoadGrid(k) ==
    IsCone(k) /\ grid.set /\ MethodOn(k, "loadGrid", LoadGridOf(field[k], grid))

FieldSnapToGrid(k) ==
    IsCone(k) /\ grid.set /\ MethodOn(k, "snapToGrid", SnapToGridOf(field[k]))

FieldDrawConcentrations(k, d) ==
    IsCone(k) /\ MethodOn(k, "drawConcentrations", DrawConcentrationsOf(field[k], d))

FieldMakeKappas(k, profile) ==
    IsCone(k) /\ MethodOn(k, "makeKappas", MakeKappasOf(field[k], profile))

FieldCombineKappas(k, arg) ==
    IsCone(k) /\ MethodOn(k, "combineKappas", CombineKappasOf(field[k], arg, NoFk))

FieldConfigureForSurvey(k, experiment) ==
    IsCone(k) /\ MethodOn(k, "configureForSurvey",
                          ConfigureForSurveyOf(field[k], experiment, cat_columns))

FieldCombineMus(k) ==
    IsCone(k) /\ MethodOn(k, "combineMus", CombineMusOf(field[k], TRUE))

\* The arguments of lens_by_halos: relevance_lim (squared), methods,
\* use_method
RelevanceLims == {Zero, One}
HaloMethods == {<<"add">>}
UseMethods == {"add"}

\* The outcomes of the draw of concentrations inside lens_by_halos
FieldDraws == {1}

\* The first pass of the loop of lens_by_halos on cone c, up to the call of
\* combineKappas: the relevance cut, drawConcentrations(errors=True),
\* makeKappas(truncationscale=10)
FirstPass(c, lim2, d) ==
    Only({ MakeKappasOf(drawn, "BMO1").cone
           : drawn \in { DrawConcentrationsOf(pruned, d).cone
                         : pruned \in {PruneOf(c, lim2)} } })

\* BackgroundCatalog.lens_by_halos(methods, use_method, relevance_lim) on a
\* field whose cones carry their tables.  The grid is set up and the cones
\* drilled if they are not; the first pass of the loop ends at
\* combineKappas(methods=..., smooth_corr=...), a keyword the method does not
\* take, for every setting of the arguments.
LensConesByHalos(lim2, methods, use_method, d) ==
    /\ lightcones.drilled \/ catalog # << >>
    /\ \E slots \in { IF lightcones.drilled THEN lightcones.cones ELSE DrilledCones },
          tables \in { IF lightcones.drilled THEN field ELSE DrilledField } :
         IF ~lightcones.drilled /\ MissingLabels # {}
         THEN /\ lightcones' = [drilled |-> TRUE, cones |-> slots]
              /\ field' = tables
              /\ raised' = "KeyError"
              /\ UNCHANGED <<bg, lensed>>
         ELSE IF bg_count # Len(slots)
         THEN /\ lightcones' = [drilled |-> TRUE, cones |-> slots]
              /\ field' = tables
              /\ raised' = "AssertionError"
              /\ UNCHANGED <<bg, lensed>>
         ELSE IF slots # << >> /\ ~slots[1].set
         THEN /\ lightcones' = [drilled |-> TRUE, cones |-> slots]
              /\ field' = tables
              /\ raised' = "AttributeError"
              /\ UNCHANGED <<bg, lensed>>
         ELSE IF slots # << >>
         THEN /\ lightcones' = [drilled |-> TRUE,
                                cones |-> [slots EXCEPT ![1].stage = "kappas"]]
              /\ field' = StoreCone(tables, 1, FirstPass(tables[1], lim2, d))
              /\ raised' = "TypeError"
              /\ UNCHANGED <<bg, lensed>>
         ELSE \E written \in
                { [i \in 1..Len(bg) |-> LensRow(bg[i], Zero, Zero, Zero)] } :
              /\ lightcones' = [drilled |-> TRUE, cones |-> slots]
              /\ field' = tables
              /\ bg' = [i \in 1..Len(bg) |->
                          [bg[i] EXCEPT !.strong_flag = written[i].strong_flag]]
              /\ lensed' = [by |-> "halos", rows |-> written]
              /\ raised' = "none"
    /\ grid' = FieldGrid
    /\ foreground_kappas' = IF lightcones.drilled THEN foreground_kappas ELSE MeanKappas
    /\ call' = [CallRec("lens_by_halos", methods, NoFk, FALSE, d)
                  EXCEPT !.use = use_method, !.lim = lim2]
    /\ UNCHANGED <<coneVars, bg_count, bg_removed, compose, recon>>

\* The foreground catalogs of a field, and the intrinsic ellipticity of
\* its sources
FieldCatalogs ==
    { <<CatRow(0, 0, 0, 2), CatRow(3, 0, 0, 10)>>,
      <<CatRow(1, 0, 0, 10), CatRow(5, 0, 0, 16)>> }

\* The positions of the sources of a field: none, one, two apart, two at
\* one place
FieldSources ==
    { << >>, << <<0, 0>> >>, << <<0, 0>>, <<3, 0>> >>, << <<3, 0>>, <<3, 0>> >> }

FieldEInt == <<Half, Zero>>

\* The surveys a cone is configured for (the entries as the configuration
\* file gives them): photometry within 2 arcmin down to magnitude 24 in the
\* i band, or no photometric radius configured
Experiments ==
    { Experiment(<<"2">>, <<"24">>, <<"">>, <<"">>, "i"),
      Experiment(<<"">>, <<"">>, <<"">>, <<"">>, "i") }

\* The source redshifts handed to defineSystem, and the profiles to
\* makeKappas, on a cone of the field
FieldZs == {4}
FieldProfiles == {"BMO1"}

\* A background catalog after generate, and the foreground catalog its
\* cones are drilled from.
InitField ==
    /\ catalog \in FieldCatalogs
    /\ cat_columns = CatColumns \cup {"mag_SDSS_i"}
    /\ \E ps \in FieldSources :
           bg = [i \in 1..Len(ps) |-> SourceRow(i - 1, ps[i], FieldEInt)]
    /\ bg_count = Len(bg)
    /\ bg_removed = 0
    /\ lightcones = NoLightcones
    /\ lensed = NoLensing
    /\ compose = NoCompose
    /\ NoField
    /\ built = FALSE
    /\ xc = <<0, 0>>
    /\ rmax = 0
    /\ galaxies = << >>
    /\ galaxy_count = 0
    /\ zs = -1
    /\ zl = -1
    /\ printed = ""
    /\ valid = NoValid
    /\ columns = {}
    /\ attrs = {}
    /\ total = NoTotals
    /\ raised = "none"
    /\ ret = Zero
    /\ call = NoCall

NextField ==
    \/ DrillCones
    \/ \E lim2 \in RelevanceLims, methods \in HaloMethods, use_method \in UseMethods,
          d \in FieldDraws : LensConesByHalos(lim2, methods, use_method, d)
    \/ \E k \in 1..Len(field), z \in FieldZs : FieldDefineSystem(k, ConeZl, z)
    \/ \E k \in 1..Len(field) : FieldLoadGrid(k)
    \/ \E k \in 1..Len(field) : FieldSnapToGrid(k)
    \/ \E k \in 1..Len(field), d \in FieldDraws : FieldDrawConcentrations(k, d)
    \/ \E k \in 1..Len(field), profile \in FieldProfiles : FieldMakeKappas(k, profile)
    \/ \E k \in 1..Len(field) :
          FieldCombineKappas(k, MethodsList(<<"add", "keeton", "tom">>))
    \/ \E k \in 1..Len(field) : FieldCombineMus(k)

SpecField == InitField /\ [][NextField]_vars

\* The foreground rows about a single source at <<0, 0>>
SurveyRows ==
    {CatRow(0, 0, 0, 2), CatRow(1, 0, 0, 2), CatRow(3, 0, 0, 10), CatRow(3, 3, 0, 2)}

\* A background catalog of one source, and the foreground catalog its cone
\* is drilled from: the cone is then configured for a survey, cut in
\* redshift, realized and lensed in any order.
InitSurvey ==
    /\ catalog \in SeqsUpTo(SurveyRows, MaxCat) \ {<< >>}
    /\ cat_columns = CatColumns \cup {"mag_SDSS_i"}
    /\ bg = <<SourceRow(0, <<0, 0>>, FieldEInt)>>
    /\ bg_count = 1
    /\ bg_removed = 0
    /\ lightcones = NoLightcones
    /\ lensed = NoLensing
    /\ compose = NoCompose
    /\ NoField
    /\ built = FALSE
    /\ xc = <<0, 0>>
    /\ rmax = 0
    /\ galaxies = << >>
    /\ galaxy_count = 0
    /\ zs = -1
    /\ zl = -1
    /\ printed = ""
    /\ valid = NoValid
    /\ columns = {}
    /\ attrs = {}
    /\ total = NoTotals
    /\ raised = "none"
    /\ ret = Zero
    /\ call = NoCall

NextSurvey ==
    \/ NextField
    \/ \E k \in 1..Len(field), experiment \in Experiments :
          FieldConfigureForSurvey(k, experiment)

SpecSurvey == InitSurvey /\ [][NextSurvey]_vars

----------------------------------------------------------------------------
(* Claims about a field of cones.                                          *)

\* The Lightcone methods called on one cone of the field
ConeMethods == {"defineSystem", "loadGrid", "configureForSurvey", "snapToGrid",
                "drawConcentrations", "makeKappas", "combineKappas", "combineMus"}

\* Every cone of f other than the k-th is as it is in g
OthersSame(f, g, k) ==
    /\ Len(f) = Len(g)
    /\ \A j \in 1..Len(f) : j # k => f[j] = g[j]

\* C21: a Lightcone method called on one cone leaves the grid, the table of
\* foreground mean kappas, the parent catalog and every other cone as they
\* were; the construction of the cones in drill_lightcones leaves the
\* parent catalog as it was; the relevance cut of lens_by_halos on drilled
\* cones, and the stages that follow it, leave all four as they were.
C21_SharedStateUntouched ==
    [][/\ call'.op \in ConeMethods =>
            /\ grid' = grid
            /\ foreground_kappas' = foreground_kappas
            /\ catalog' = catalog
            /\ OthersSame(field', field, call'.num2)
       /\ call'.op = "drill_lightcones" => catalog' = catalog
       /\ (call'.op = "lens_by_halos" /\ lightcones.drilled) =>
            /\ grid.set => grid' = grid
            /\ foreground_kappas' = foreground_kappas
            /\ catalog' = catalog
            /\ OthersSame(field', field, 1)]_vars

\* C21 witness: combineMus has just returned on the second of two cones
\* with different tables, after the whole pipeline ran on it; the first
\* cone is as drill_lightcones left it and the shared tables are in place.
C21_Witness ==
    /\ call.op = "combineMus"
    /\ call.num2 = 2
    /\ raised = "none"
    /\ Len(field) = 2
    /\ field[2].galaxies # << >>
    /\ field[1].galaxies # << >>
    /\ field[1].galaxies # field[2].galaxies
    /\ field[1] = DrilledCone(0, field[1].xc, catalog, ConeRadius)
    /\ "mu_add_total" \in field[2].attrs
    /\ grid = FieldGrid
    /\ foreground_kappas = MeanKappas

\* C22: every galaxy in the table of every cone has 0 <= r < rmax, r being
\* the separation of its position from the cone centre in the local
\* tangent plane, after construction and after any sequence of
\* defineSystem, configureForSurvey, the relevance cut of lens_by_halos and
\* the realization stages.
C22_WithinRadius ==
    \A k \in 1..Len(field) :
        field[k].set =>
            \A j \in 1..Len(field[k].galaxies) :
                LET row == field[k].galaxies[j]
                IN  /\ row.r2 = LocalR2(CatPart(row), field[k].xc)
                    /\ ~RLt(row.r2, Zero)
                    /\ RLt(row.r2, RSq(R(field[k].rmax)))

\* C22 witness: the cone was drilled from a catalog with a galaxy inside
\* the square cut and outside the circle, defineSystem was called with a
\* lower source redshift, and lens_by_halos has applied a relevance cut and
\* run drawConcentrations and makeKappas: an off-centre galaxy is in the
\* table.
C22_Witness ==
    /\ call.op = "lens_by_halos"
    /\ call.lim = One
    /\ Len(field) = 1
    /\ field[1].zs = 4
    /\ \E i \in 1..Len(catalog) :
          /\ InSquare(catalog[i], field[1].xc, field[1].rmax)
          /\ ~InCircle(catalog[i], field[1].xc, field[1].rmax)
    /\ \E j \in 1..Len(field[1].galaxies) : field[1].galaxies[j].r2 # Zero
    /\ "kappa" \in field[1].columns

\* C23: after drawConcentrations has returned on a cone, every galaxy of
\* the cone has c200 > 0 and X = rphys/rs > 0, a galaxy at the cone centre
\* included.
C23_PositiveAfterDraw ==
    (call.op = "drawConcentrations" /\ raised = "none") =>
        \A j \in 1..Len(field[call.num2].galaxies) :
            /\ field[call.num2].galaxies[j].c200 > 0
            /\ RGt(field[call.num2].galaxies[j].X2, Zero)

----------------------------------------------------------------------------
(* Claims about the profile argument of makeKappas.                        *)

\* C24: a call of makeKappas with a profile other than BMO1 and BMO2 raises
\* and leaves the cone as it was: no column, no attribute and no total is
\* written.
C24_UnknownProfileWritesNothing ==
    [][(call'.op = "makeKappas" /\ call'.methods[1] \notin KnownProfiles) =>
          /\ raised' # "none"
          /\ ConeState' = ConeState]_vars

----------------------------------------------------------------------------
(* Reconstruct: Ns realizations of each calibration cone, collected in the *)
(* sample distributions of kappa_halo and mu_halo.                         *)

MaxNs == 2             \* NRealisations of the configuration

\* The ray-tracing schemes a configuration can name
RTschemes == {"sum", "keeton", "born"}

\* The cone Drill pickles for the pointing at pos: Lightcone(table,
\* 'simulated', [x, y], Rc)
PickledCone(pos, cat, radius) ==
    [NoCone EXCEPT !.set = TRUE, !.xc = pos, !.rmax = radius,
                   !.galaxies = ConeTable(cat, pos, radius),
                   !.galaxy_count = Len(ConeTable(cat, pos, radius)),
                   !.drilled = ConeTable(cat, pos, radius)]

\* lc.kappa_hilbert of the k-th pickled cone: the ray-traced convergence at
\* its pointing, one value per cone
HilbertOf(k) == Norm(k, 10)

\* A call made on the cone a previous call returned, unless that one raised
Then(res, Method(_)) ==
    Only({ IF r.raised # "none" THEN r ELSE Method(r.cone) : r \in {res} })

\* The calls of Reconstruct on a cone before its realizations:
\* defineSystem(zd, zs), loadGrid(grid), configureForSurvey(experiment)
ConfiguredCone(c, experiment, cols) ==
    Then(Then(DefineSystemOf(c, ConeZl, ConeZs),
              LAMBDA x : LoadGridOf(x, FieldGrid)),
         LAMBDA x : ConfigureForSurveyOf(x, experiment, cols))

\* One realization of the cone: snapToGrid(grid),
\* drawConcentrations(errors=True), makeKappas(truncationscale=10),
\* combineKappas(), combineMus()
RealizedCone(c, d) ==
    Then(Then(Then(Then(SnapToGridOf(c),
                        LAMBDA x : DrawConcentrationsOf(x, d)),
                   LAMBDA x : MakeKappasOf(x, "BMO1")),
              LAMBDA x : CombineKappasOf(x, MethodsList(<<"add", "keeton", "tom">>),
                                         NoFk)),
         LAMBDA x : CombineMusOf(x, TRUE))

\* A sample appended to a PDF: its value, and the cone and realization it
\* was computed in
Sample(i, j, value) == [cone |-> i, realization |-> j, value |-> value]

\* The head of the loop over allcones for cone recon.i
ReconstructCone ==
    /\ recon.phase = "cone"
    /\ \E res \in {ConfiguredCone(field[recon.i], recon.experiment, cat_columns)} :
          /\ field' = StoreCone(field, recon.i, res.cone)
          /\ raised' = res.raised
          /\ recon' = [recon EXCEPT !.j = 0,
                          !.phase = IF res.raised = "none" THEN "realize"
                                    ELSE "failed"]
    /\ call' = [CallRec("configureForSurvey", << >>, NoFk, FALSE, 0)
                  EXCEPT !.num2 = recon.i]
    /\ UNCHANGED <<coneVars, bg, bg_count, bg_removed, lightcones, lensed, compose,
                   grid, foreground_kappas>>

\* One pass of the loop over range(Ns): the realization, pmu.append, and
\* pk.append of the total of the configured scheme.  pk and pmu are the
\* objects made before the loop over allcones.
ReconstructRealization(d) ==
    /\ recon.phase = "realize"
    /\ recon.j < recon.Ns
    /\ \E res \in {RealizedCone(field[recon.i], d)} :
          /\ field' = StoreCone(field, recon.i, res.cone)
          /\ IF res.raised # "none"
             THEN /\ raised' = res.raised
                  /\ recon' = [recon EXCEPT !.phase = "failed"]
             ELSE IF recon.RTscheme = "sum"
             THEN /\ raised' = "none"
                  /\ recon' = [recon EXCEPT
                        !.j = @ + 1,
                        !.pmu = Append(@, Sample(recon.i, recon.j + 1,
                                                 res.cone.total["mu_add_total"])),
                        !.pk = Append(@, Sample(recon.i, recon.j + 1,
                                                res.cone.total["kappa_add_total"]))]
             ELSE \* lc.kappa_keeton is no attribute; raise of a string
                  /\ raised' = IF recon.RTscheme = "keeton" THEN "AttributeError"
                               ELSE "TypeError"
                  /\ recon' = [recon EXCEPT
                        !.phase = "failed",
                        !.pmu = Append(@, Sample(recon.i, recon.j + 1,
                                                 res.cone.total["mu_add_total"]))]
    /\ call' = [CallRec("combineMus", << >>, NoFk, FALSE, d) EXCEPT !.num2 = recon.i]
    /\ UNCHANGED <<coneVars, bg, bg_count, bg_removed, lightcones, lensed, compose,
                   grid, foreground_kappas>>

\* After the Ns realizations of cone recon.i: pk.truth[0] = lc.kappa_hilbert
\* and writePickle(pk, pfile)
ReconstructSave ==
    /\ recon.phase = "realize"
    /\ recon.j = recon.Ns
    /\ recon' = [recon EXCEPT
          !.truth = <<recon.kappa_hilbert[recon.i]>>,
          !.saved = Append(@, [samples |-> recon.pk,
                               truth |-> <<recon.kappa_hilbert[recon.i]>>]),
          !.i = @ + 1,
          !.j = 0,
          !.phase = IF recon.i = Len(field) THEN "done" ELSE "cone"]
    /\ raised' = "none"
    /\ call' = [CallRec("writePickle", << >>, NoFk, FALSE, 0) EXCEPT !.num2 = recon.i]
    /\ UNCHANGED <<coneVars, bg, bg_count, bg_removed, lightcones, lensed, compose,
                   field, grid, foreground_kappas>>

\* The pointings of the calibration cones
ReconPointings == { << <<0, 0>> >>, << <<0, 0>>, <<3, 0>> >> }

\* Reconstruct after the cones are read from their pickles and the grid
\* and the two PDFs are made
InitReconstruct ==
    /\ catalog \in FieldCatalogs
    /\ cat_columns = CatColumns \cup {"mag_SDSS_i"}
    /\ \E ps \in ReconPointings :
          field = [k \in 1..Len(ps) |-> PickledCone(ps[k], catalog, ConeRadius)]
    /\ grid = FieldGrid
    /\ foreground_kappas = << >>
    /\ \E n \in 1..MaxNs, scheme \in RTschemes, experiment \in Experiments :
          recon = [phase |-> "cone", Ns |-> n, RTscheme |-> scheme,
                   experiment |-> experiment,
                   kappa_hilbert |-> [k \in 1..Len(field) |-> HilbertOf(k)],
                   i |-> 1, j |-> 0, pk |-> << >>, truth |-> << >>,
                   pmu |-> << >>, saved |-> << >>]
    /\ bg = << >>
    /\ bg_count = 0
    /\ bg_removed = 0
    /\ lightcones = NoLightcones
    /\ lensed = NoLensing
    /\ compose = NoCompose
    /\ built = FALSE
    /\ xc = <<0, 0>>
    /\ rmax = 0
    /\ galaxies = << >>
    /\ galaxy_count = 0
    /\ zs = -1
    /\ zl = -1
    /\ printed = ""
    /\ valid = NoValid
    /\ columns = {}
    /\ attrs = {}
    /\ total = NoTotals
    /\ raised = "none"
    /\ ret = Zero
    /\ call = NoCall

NextReconstruct ==
    \/ ReconstructCone
    \/ \E d \in FieldDraws : ReconstructRealization(d)
    \/ ReconstructSave

SpecReconstruct == InitReconstruct /\ [][NextReconstruct]_vars

----------------------------------------------------------------------------
(* Claims about the bookkeeping of a drilled field.                        *)

\* The operations that change the table of a cone: construction (in
\* drill_lightcones), defineSystem, configureForSurvey, and the relevance
\* cut of lens_by_halos
TableChanging == {"drill_lightcones", "defineSystem", "configureForSurvey",
                  "lens_by_halos"}

\* C26: after every operation that changes the table of a cone, the cone's
\* galaxy_count is the number of rows of its table.
C26_CountMatchesTable ==
    call.op \in TableChanging =>
        \A k \in 1..Len(field) :
            (field[k].set /\ call.num2 \in {0, k}) =>
                field[k].galaxy_count = Len(field[k].galaxies)

\* C27: drill_lightcones returns with exactly one cone per galaxy of the
\* background catalog, the i-th with ID i and centred on the i-th galaxy,
\* also when lens_by_map has removed strongly lensed galaxies before.
C27_OneConePerGalaxy ==
    call.op = "drill_lightcones" =>
        /\ raised = "none"
        /\ Len(lightcones.cones) = Len(bg)
        /\ \A k \in 1..Len(bg) :
              /\ lightcones.cones[k].set
              /\ lightcones.cones[k].ID = k - 1
              /\ lightcones.cones[k].RA = bg[k].RA
              /\ lightcones.cones[k].Dec = bg[k].Dec

\* C28: lens_by_halos on a catalog with galaxies returns with the kappa,
\* gamma1 and gamma2 of every galaxy set to the totals of the scheme named
\* by use_method, as its cone has them after this call.
C28_TotalsOfUseMethod ==
    (call.op = "lens_by_halos" /\ bg # << >>) =>
        /\ raised = "none"
        /\ lensed.by = "halos"
        /\ Len(lensed.rows) = Len(bg)
        /\ \A i \in 1..Len(lensed.rows) :
              /\ "kappa_" \o call.use \o "_total" \in field[i].attrs
              /\ lensed.rows[i].kappa =
                    field[i].total["kappa_" \o call.use \o "_total"]
              /\ lensed.rows[i].gamma1 =
                    field[i].total["gamma1_" \o call.use \o "_total"]
              /\ lensed.rows[i].gamma2 =
                    field[i].total["gamma2_" \o call.use \o "_total"]

\* C29: a call of lens_by_halos with relevance_lim = 0.0 works, in the cone
\* it processes, on every object the cone held after drilling, whatever the
\* limits of earlier calls were (the cone not having been cut in redshift
\* since: its zs is the one it was drilled with).
C29_DefaultLimitUsesAll ==
    (/\ call.op = "lens_by_halos"
     /\ call.lim = Zero
     /\ field # << >>
     /\ field[1].set
     /\ field[1].zs = ConeZs) =>
        field[1].galaxy_count = Len(field[1].drilled)

----------------------------------------------------------------------------
(* The ellipticities of the background catalog: generate and add_noise.    *)

\* What np.random.normal(0.0, sigma) can return for an ellipticity
\* component: a value below -1, a value inside the unit interval, a value
\* above 1
EllipticityDraws == {Norm(-3, 2), Zero, Norm(3, 2)}

\* The values a resampling loop leaves in a component it has re-drawn: the
\* loop, 'while (e1>1.0).any() or (e2>1.0).any()', re-draws the components
\* above 1.0 until none is
Redrawn == {d \in EllipticityDraws : ~RGt(d, One)}

\* The position generate draws for the galaxy of label l
GeneratedPos(l) == IF l = 0 THEN <<0, 0>> ELSE <<3, 0>>

\* BackgroundCatalog.__init__: generate(...) with galaxy_count = n, then
\* strong_lensed_removed = 0 and the strong_flag column.  Each component
\* of the intrinsic ellipticity is a first draw that is not above 1.0 or a
\* re-drawn one.
Generate(n) ==
    /\ call.op = "none"
    /\ \E es \in [1..n -> Redrawn \X Redrawn] :
          bg' = [i \in 1..n |-> SourceRow(i - 1, GeneratedPos(i - 1), es[i])]
    /\ bg_count' = n
    /\ bg_removed' = 0
    /\ lensed' = NoLensing
    /\ raised' = "none"
    /\ call' = CallRec("generate", << >>, NoFk, FALSE, n)
    /\ UNCHANGED <<coneVars, lightcones, compose, fieldVars>>

\* The values add_noise can leave in a component whose value times M is x:
\* x plus the noise drawn if that is not above 1.0, a re-drawn noise value
\* if it is
Noisy(x) ==
    {RAdd(x, d) : d \in {f \in EllipticityDraws : ~RGt(RAdd(x, f), One)}}
        \cup (IF \E d \in EllipticityDraws : RGt(RAdd(x, d), One)
              THEN Redrawn ELSE {})

\* The rows add_noise can make of a row: e1 and e2 with noise, and eMod
NoisyRow(row, M) ==
    { [row EXCEPT !.e1 = a, !.e2 = b, !.eMod2 = RAdd(RSq(a), RSq(b))]
      : a \in Noisy(RMul(M, row.e1)), b \in Noisy(RMul(M, row.e2)) }

\* The maps the catalog is lensed by before noise is added: no lensing, and
\* a shear of 1/2 at every position
NoiseMaps ==
    { [p \in SrcPos |-> <<Zero, Zero, Zero>>],
      [p \in SrcPos |-> <<Zero, Half, Zero>>],
      [p \in SrcPos |-> <<Zero, One, Zero>>] }

\* BackgroundCatalog.add_noise(M, sigma_obs).  The columns e1 and e2 are
\* those lens_by_map wrote; the noise array has galaxy_count entries and is
\* added to the len(self.galaxies) values.  The call is not repeated on
\* its own result.
AddNoise(M) ==
    /\ call.op # "add_noise"
    /\ IF lensed.by # "map"
       THEN /\ raised' = "KeyError"
            /\ UNCHANGED bg
       ELSE IF bg_count # Len(bg)
       THEN \* arrays of different lengths; an array of one entry may be
            \* broadcast, here on no row at all
            /\ raised' \in (IF bg_count = 1 THEN {"ValueError", "none"}
                            ELSE {"ValueError"})
            /\ UNCHANGED bg
       ELSE /\ bg' \in {t \in [1..Len(bg) ->
                                   UNION {NoisyRow(bg[i], M) : i \in 1..Len(bg)}] :
                           \A i \in 1..Len(bg) : t[i] \in NoisyRow(bg[i], M)}
            /\ raised' = "none"
    /\ call' = CallRec("add_noise", << >>, NoFk, FALSE, 0)
    /\ UNCHANGED <<coneVars, bg_count, bg_removed, lightcones, lensed, compose,
                   fieldVars>>

\* The multiplicative calibration factors M handed to add_noise
NoiseFactors == {One}

\* Before BackgroundCatalog.__init__ has generated the catalog
InitNoise ==
    /\ bg = << >>
    /\ bg_count = 0
    /\ bg_removed = 0
    /\ lightcones = NoLightcones
    /\ lensed = NoLensing
    /\ compose = NoCompose
    /\ NoField
    /\ catalog = << >>
    /\ built = FALSE
    /\ xc = <<0, 0>>
    /\ rmax = 0
    /\ galaxies = << >>
    /\ galaxy_count = 0
    /\ zs = -1
    /\ zl = -1
    /\ cat_columns = CatColumns
    /\ printed = ""
    /\ valid = NoValid
    /\ columns = {}
    /\ attrs = {}
    /\ total = NoTotals
    /\ raised = "none"
    /\ ret = Zero
    /\ call = NoCall

NextNoise ==
    \/ \E n \in 0..MaxSrc : Generate(n)
    \/ \E m \in NoiseMaps : call.op # "none" /\ LensByMap(m)
    \/ \E M \in NoiseFactors : call.op # "none" /\ AddNoise(M)

SpecNoise == InitNoise /\ [][NextNoise]_vars

\* The component x lies in [-1, 1]
InUnitInterval(x) == ~IsNaN(x) /\ ~RGt(x, One) /\ ~RLt(x, RNeg(One))

\* C30: after generate every e1_int and e2_int lies in [-1, 1], and after
\* add_noise every e1 and e2 lies in [-1, 1].
C30_ComponentsInUnitInterval ==
    /\ call.op = "generate" =>
          \A i \in 1..Len(bg) :
              InUnitInterval(bg[i].e1_int) /\ InUnitInterval(bg[i].e2_int)
    /\ (call.op = "add_noise" /\ raised = "none") =>
          \A i \in 1..Len(bg) :
              InUnitInterval(bg[i].e1) /\ InUnitInterval(bg[i].e2)

====
